---- MODULE Spec2Model ----
(***************************************************************************)
(* RUNSTR run tracker: RunTracker.js with the filters, the sensor fusion   *)
(* manager and the GPS gap filler it owns.                                  *)
(*                                                                          *)
(* Numbers.  JavaScript numbers are modelled as integers in fixed point:   *)
(*   latitude, longitude   micro-degrees (1e-6 degree)                      *)
(*   distances, altitudes  millimetres                                      *)
(*   times, durations      milliseconds                                     *)
(*   accuracy              metres                                           *)
(*   Kalman Q, R, P, K and confidences   thousandths                        *)
(* The modelled fixes lie on one meridian, at non-negative latitudes and   *)
(* altitudes, so that the sentinels null and NaN below are no coordinate.  *)
(***************************************************************************)
EXTENDS Integers, Sequences, FiniteSets, Bags, TLC

\* ------------------------------------------------------------------ bounds

\* What one behaviour may use up.  A call counts when it passes the guard of
\* its method, a fix when it passes the gate of addPosition, an interval
\* callback when it finds the session tracking; the calls, fixes and callbacks
\* that return at once count as idle steps.
MaxIdle == 1
\* Spec: calls and fixes
MaxCalls == 2
MaxFixes == 3
\* SpecSession: calls, fixes, clock advances, motion samples, interval callbacks
SessionCalls == 3
SessionFixes == 2
SessionClock == 1
SessionMotion == 2
SessionTicks == 1
\* SpecAsync: calls, and errors the plugin reports to a watcher callback
AsyncCalls == 2
AsyncErrors == 1

SamplingCalls == 2
SamplingFixes == 2
SamplingTicks == 1

GapFixes == 4
GapCalls == 2

KalmanCalls == 4

OutageCalls == 2
OutageFixes == 2
OutageClock == 2
OutageMotion == 1
OutageTicks == 3

DegenerateCalls == 2
DegenerateFixes == 2

BatteryCalls == 2
BatteryFixes == 2
BatteryTicks == 1

RestoreCalls == 3
RestoreFixes == 1
RestoreClock == 2
RestoreTicks == 2

SensorCalls == 1
SensorFixes == 2

PredictionCalls == 3

PredictionFixes == 3

PredictionClock == 2

PredictionMotion == 1

PredictionTicks == 2

SplitCalls == 3

SplitFixes == 3

StepSamples == 5

StepResets == 1

RegressionFixes == 4

RegressionCalls == 2

\* --------------------------------------------------------------- sentinels

null == -1
NaN == -2

\* ---------------------------------------------------------------- helpers

Abs(x) ==
    IF x < 0 THEN -x ELSE x

Max(a, b) ==
    IF a >= b THEN a ELSE b

Min(a, b) ==
    IF a <= b THEN a ELSE b

isNaN(x) ==
    x = NaN

Last(seq) ==
    seq[Len(seq)]

\* Array.prototype.push followed by shift() once the window is exceeded.
PushBounded(seq, x, size) ==
    IF Len(seq) + 1 > size THEN Tail(Append(seq, x)) ELSE Append(seq, x)

RECURSIVE SumOver(_, _, _)
\* reduce((acc, r) => acc + f(r), 0) over seq[1..n]
SumOver(F(_), seq, n) ==
    IF n = 0 THEN 0 ELSE SumOver(F, seq, n - 1) + F(seq[n])

\* ------------------------------------------------------------ KalmanFilter1D

\* new KalmanFilter1D({Q, R})
KalmanFilter1D(q, r) ==
    [Q |-> q, R |-> r, x |-> null, P |-> 1000, K |-> 0]

\* A gain that weighs the prediction against the measurement noise alone
KalmanGain_OverR(pPred, r) ==
    (pPred * 1000) \div r

\* The gain P_pred / (P_pred + R), in thousandths.
KalmanGain(pPred, r) ==
    (pPred * 1000) \div (pPred + r)

\* filter(measurement): the filter after the call; its x is the returned value.
KalmanFilter(f, measurement) ==
    IF f.x = null
    THEN [f EXCEPT !.x = measurement]
    ELSE LET pPred == f.P + f.Q
             k == KalmanGain(pPred, f.R)
         IN [f EXCEPT !.K = k,
                      !.x = f.x + (k * (measurement - f.x)) \div 1000,
                      !.P = ((1000 - k) * pPred) \div 1000]

\* adjustParameters(accuracy): R = max(0.001, accuracy / 20)
KalmanAdjustParameters(f, accuracy) ==
    [f EXCEPT !.R = Max(1, (accuracy * 1000) \div 20)]

KalmanReset(f) ==
    [f EXCEPT !.x = null, !.P = 1000, !.K = 0]

\* ---------------------------------------------------------- WeightedGPSFilter

WEIGHTED_WINDOW == 5

\* A common multiple of accuracy^2 over the modelled accuracies (5, 10, 20 m):
\* the weight 1/accuracy^2 of a reading is the integer WeightScale/accuracy^2.
WeightScale == 400

ReadingWeight(r) ==
    WeightScale \div (r.accuracy * r.accuracy)

ReadingWeightedLat(r) ==
    r.lat * ReadingWeight(r)

ReadingWeightedLon(r) ==
    r.lon * ReadingWeight(r)

ReadingAccuracy(r) ==
    r.accuracy

\* getAverageAccuracy(), rounded down to whole metres
getAverageAccuracy(readings) ==
    IF Len(readings) = 0 THEN 0
    ELSE SumOver(ReadingAccuracy, readings, Len(readings)) \div Len(readings)

\* getWeightedAverage(): a zero accuracy gives the weight Infinity, and then
\* Infinity / Infinity (or 0 * Infinity) = NaN for both coordinates.
getWeightedAverage(readings) ==
    IF \E i \in 1..Len(readings) : readings[i].accuracy = 0
    THEN [lat |-> NaN, lon |-> NaN, accuracy |-> getAverageAccuracy(readings)]
    ELSE LET n == Len(readings)
             totalWeight == SumOver(ReadingWeight, readings, n)
         IN [lat |-> SumOver(ReadingWeightedLat, readings, n) \div totalWeight,
             lon |-> SumOver(ReadingWeightedLon, readings, n) \div totalWeight,
             accuracy |-> getAverageAccuracy(readings)]

\* addReading(reading): the window after the call
addReading(readings, reading) ==
    PushBounded(readings, reading, WEIGHTED_WINDOW)

\* ------------------------------------------------------------- fixed point

\* floor(a * num / den) without forming a * num
MulDiv(a, num, den) ==
    (a \div den) * num + ((a % den) * num) \div den

\* --------------------------------------------------------------- RunTracker

AVERAGE_STRIDE_LENGTH_METERS == 620
MOVEMENT_THRESHOLD == 500
GPS_ACCURACY_LIMIT == 20
MISSING_ACCURACY == 999
gpsOutageThreshold == 10000
SPEED_WINDOW == 10000
KM_METERS == 1000000
MILE_METERS == 1609344
MAX_LATITUDE == 90000000
MAX_LONGITUDE == 180000000

\* getCustomStrideLength(): every branch falls through to the default
strideLength ==
    AVERAGE_STRIDE_LENGTH_METERS

\* this.emit(type, value)
Emit(s, type, value) ==
    [s EXCEPT !.emitted = Append(@, [type |-> type, value |-> value])]

\* getDistanceUnit()
getDistanceUnit(s) ==
    s.localStorage.distanceUnit

\* distanceUnit === 'km' ? 1000 : 1609.344
SplitDistanceOf(unit) ==
    IF unit = "km" THEN KM_METERS ELSE MILE_METERS

\* calculateDistance(): the haversine distance of two points of one meridian
\* is R * |dLat|, 111.1949 mm for each micro-degree; NaN in, NaN out.
calculateDistance(lat1, lon1, lat2, lon2) ==
    IF isNaN(lat1) \/ isNaN(lon1) \/ isNaN(lat2) \/ isNaN(lon2) THEN NaN
    ELSE LET d == Abs(lat2 - lat1)
         IN d * 111 + (d * 1949) \div 10000

\* The shared pace utility: seconds for one distance unit.
calculatePace(distance, duration, unit) ==
    IF distance <= 0 \/ duration <= 0 THEN 0
    ELSE (duration * (SplitDistanceOf(unit) \div 1000)) \div distance

\* The body of standardise(pos) in addPosition
standardise(pos, now) ==
    [latitude |-> pos.latitude,
     longitude |-> pos.longitude,
     accuracy |-> IF pos.accuracy = null THEN 0 ELSE pos.accuracy,
     altitude |-> pos.altitude,
     timestamp |-> IF pos.timestamp = 0 THEN now ELSE pos.timestamp]

\* newPosition.accuracy ?? newPosition.coords?.accuracy ?? 999
AccuracyOf(pos) ==
    IF pos.accuracy = null THEN MISSING_ACCURACY ELSE pos.accuracy

\* isNaN(lat) || isNaN(lon) || lat < -90 || lat > 90 || lon < -180 || lon > 180
InvalidCoordinates(lat, lon) ==
    \/ isNaN(lat)
    \/ isNaN(lon)
    \/ lat < -MAX_LATITUDE
    \/ lat > MAX_LATITUDE
    \/ lon < -MAX_LONGITUDE
    \/ lon > MAX_LONGITUDE

\* The gate without its accuracy test
GateRejects_AnyAccuracy(s, pos) ==
    \/ ~s.isTracking
    \/ s.isPaused
    \/ InvalidCoordinates(pos.latitude, pos.longitude)

\* The two early returns of addPosition before any state is touched.
GateRejects(s, pos) ==
    \/ ~s.isTracking
    \/ s.isPaused
    \/ AccuracyOf(pos) > GPS_ACCURACY_LIMIT
    \/ InvalidCoordinates(pos.latitude, pos.longitude)

\* updateElevation(altitude)
updateElevation(s, altitude) ==
    IF altitude = null \/ isNaN(altitude) THEN s
    ELSE LET e == s.elevation
             diff == altitude - e.lastAltitude
             gain == IF e.lastAltitude # null /\ Abs(diff) >= 1000 /\ diff > 0
                     THEN e.gain + diff ELSE e.gain
             loss == IF e.lastAltitude # null /\ Abs(diff) >= 1000 /\ ~(diff > 0)
                     THEN e.loss + Abs(diff) ELSE e.loss
             e2 == [current |-> altitude, gain |-> gain, loss |-> loss,
                    lastAltitude |-> altitude]
         IN Emit([s EXCEPT !.elevation = e2], "elevationChange", e2)

\* The Kalman process noise chosen from the activity type.
ProcessNoiseOf(activityType) ==
    IF activityType = "walk" THEN 500
    ELSE IF activityType = "cycle" THEN 5000
    ELSE 3000

\* ------------------------------------------------------------ sensorFusion.js

STEP_THRESHOLD == 12
minTimeBetweenSteps == 250
stepLength == 750
confidenceDecayRate == 950

\* new StepCounter() / StepCounter.reset()
StepCounterInit ==
    [stepCount |-> 0, lastAcceleration |-> null, lastPeakTime |-> 0]

\* The condition under which processAcceleration counts a step.
StepDetected(sc, magnitude, now) ==
    /\ sc.lastAcceleration # null
    /\ magnitude > STEP_THRESHOLD
    /\ sc.lastAcceleration <= STEP_THRESHOLD
    /\ now - sc.lastPeakTime > minTimeBetweenSteps

\* StepCounter.processAcceleration(acceleration): the counter after the call
processAcceleration(sc, magnitude, now) ==
    IF StepDetected(sc, magnitude, now)
    THEN [stepCount |-> sc.stepCount + 1, lastAcceleration |-> magnitude,
          lastPeakTime |-> now]
    ELSE [sc EXCEPT !.lastAcceleration = magnitude]

\* new DeadReckoning(); lastKnownPosition is <<>> for null
DeadReckoningInit ==
    [lastKnownPosition |-> <<>>, heading |-> 0, stepsSinceLastGPS |-> 0,
     currentConfidence |-> 1000]

\* DeadReckoning.reset(): the heading is kept
DeadReckoningReset(dr) ==
    [dr EXCEPT !.lastKnownPosition = <<>>, !.stepsSinceLastGPS = 0,
               !.currentConfidence = 1000]

\* DeadReckoning.updateGPSPosition({lat, lon, heading}); RunTracker passes the
\* heading null, which is not undefined and is stored.
DeadReckoningUpdateGPS(dr, lat, lon, heading, now) ==
    [lastKnownPosition |-> <<[lat |-> lat, lon |-> lon, timestamp |-> now]>>,
     heading |-> heading,
     stepsSinceLastGPS |-> 0,
     currentConfidence |-> 1000]

RECURSIVE DecayConfidence(_, _)
\* currentConfidence * Math.pow(confidenceDecayRate, stepsDelta)
DecayConfidence(confidence, stepsDelta) ==
    IF stepsDelta <= 0 THEN confidence
    ELSE DecayConfidence((confidence * confidenceDecayRate) \div 1000, stepsDelta - 1)

\* DeadReckoning.estimatePosition(stepCount): [dr, result]; result is <<>> for
\* null.  The heading is 0 or null here, so the step is due north:
\* distance / R * 180 / pi micro-degrees of latitude, none of longitude.
estimatePosition(dr, stepCount) ==
    IF dr.lastKnownPosition = <<>> THEN [dr |-> dr, result |-> <<>>]
    ELSE LET last == dr.lastKnownPosition[1]
             stepsDelta == stepCount - dr.stepsSinceLastGPS
         IN IF stepsDelta <= 0
            THEN [dr |-> dr,
                  result |-> <<[lat |-> last.lat, lon |-> last.lon,
                                confidence |-> dr.currentConfidence]>>]
            ELSE LET distance == stepsDelta * stepLength
                     confidence == DecayConfidence(dr.currentConfidence, stepsDelta)
                     newLat == IF isNaN(last.lat) THEN NaN
                               ELSE last.lat + (distance * 10000) \div 1111949
                 IN [dr |-> [dr EXCEPT !.stepsSinceLastGPS = stepCount,
                                       !.currentConfidence = confidence],
                     result |-> <<[lat |-> newLat, lon |-> last.lon,
                                   confidence |-> confidence]>>]

\* new SensorFusionManager(): onStepDetected is "method" while the instance
\* still has the prototype's method and "callback" once onStepDetected(cb)
\* has overwritten it with the callback.
SensorFusionInit ==
    [stepCounter |-> StepCounterInit, deadReckoning |-> DeadReckoningInit,
     isMotionAvailable |-> FALSE, motionListener |-> FALSE,
     onStepDetected |-> "method"]

\* SensorFusionManager.reset() (the activity classifier only feeds a log line)
SensorFusionReset(sf) ==
    [sf EXCEPT !.stepCounter = StepCounterInit,
               !.deadReckoning = DeadReckoningReset(@)]

\* ------------------------------------------------------ trajectoryPrediction.js

historySize == 20
maxGapDuration == 60000
PREDICTION_BASE_CONFIDENCE == 900
PREDICTION_MIN_CONFIDENCE == 100
FILL_GAP_MIN_CONFIDENCE == 300

\* new GPSGapFiller() / GPSGapFiller.reset(); the regression models are
\* retrained from positionHistory on every addPosition and are a function of it
GapFillerInit ==
    [positionHistory |-> <<>>, isInGap |-> FALSE, gapStartTime |-> 0,
     lastKnownPosition |-> <<>>]

\* relativeTime of trainModels in whole seconds: every timestamp of the model
\* is a whole number of seconds
HistX(h, i) ==
    (h[i].timestamp - h[1].timestamp) \div 1000

RECURSIVE RegressionSums(_, _, _)
\* The sums of LinearRegression.train over the points (x_i, y_i), i = 1..n, x
\* in seconds since positionHistory[0]; a NaN y makes every sum NaN.
RegressionSums(h, Y(_), n) ==
    IF n = 0 THEN [x |-> 0, y |-> 0, xy |-> 0, xx |-> 0, nan |-> FALSE]
    ELSE LET r == RegressionSums(h, Y, n - 1)
             x == HistX(h, n)
             y == Y(h[n])
         IN IF r.nan \/ isNaN(y) THEN [r EXCEPT !.nan = TRUE]
            ELSE [x |-> r.x + x, y |-> r.y + y, xy |-> r.xy + x * y,
                  xx |-> r.xx + x * x, nan |-> FALSE]

\* LinearRegression.train then predict(x): slope * x + intercept with
\* slope = (n sumXY - sumX sumY) / (n sumXX - sumX^2) and
\* intercept = (sumY - slope sumX) / n; a zero denominator gives NaN.
RegressionPredict(h, Y(_), x) ==
    LET n == Len(h)
        r == RegressionSums(h, Y, n)
        den == n * r.xx - r.x * r.x
        num == n * r.xy - r.x * r.y
    IN IF r.nan \/ den = 0 THEN NaN
       ELSE (num * (n * x - r.x) + r.y * den) \div (n * den)

HistLat(p) ==
    p.lat

HistLon(p) ==
    p.lon

RECURSIVE ExpDecay(_)
\* Math.exp(-seconds / 30) in thousandths, by whole seconds: e^(-1/30) = 0.9672
\* and e^(-1) = 0.3679
ExpDecay(seconds) ==
    IF seconds = 0 THEN 1000
    ELSE IF seconds >= 30 THEN (ExpDecay(seconds - 30) * 3679) \div 10000
    ELSE IF seconds > 0 THEN (ExpDecay(seconds - 1) * 9672) \div 10000
    ELSE (ExpDecay(seconds + 1) * 10000) \div 9672

\* MovementPatternAnalyzer.predictPosition(futureTimestamp): <<>> for null
predictPosition(h, futureTimestamp) ==
    IF Len(h) < 3 THEN <<>>
    ELSE LET x == (futureTimestamp - h[1].timestamp) \div 1000
             timeGap == (futureTimestamp - Last(h).timestamp) \div 1000
             confidence == (PREDICTION_BASE_CONFIDENCE * ExpDecay(timeGap)) \div 1000
         IN <<[lat |-> RegressionPredict(h, HistLat, x),
               lon |-> RegressionPredict(h, HistLon, x),
               timestamp |-> futureTimestamp,
               confidence |-> Max(PREDICTION_MIN_CONFIDENCE, confidence)]>>

\* GPSGapFiller.fillGap(): <<>> for null
fillGap(g, now) ==
    IF now - g.gapStartTime > maxGapDuration THEN <<>>
    ELSE LET predicted == predictPosition(g.positionHistory, now)
         IN IF predicted # <<>> /\ predicted[1].confidence > FILL_GAP_MIN_CONFIDENCE
            THEN predicted ELSE <<>>

\* position.lat || position.coords?.latitude: 0 and NaN are falsy, and the
\* object RunTracker passes has no coords, so they become undefined
FalsyToUndefined(v) ==
    IF v = 0 \/ isNaN(v) THEN NaN ELSE v

\* GPSGapFiller.processPosition(position) for a position that is not
\* predicted: the gap filler after the call
processPosition(g, position, now) ==
    [g EXCEPT !.positionHistory =
                  PushBounded(@, [lat |-> FalsyToUndefined(position.lat),
                                  lon |-> FalsyToUndefined(position.lon),
                                  timestamp |-> IF position.timestamp = 0 THEN now
                                                ELSE position.timestamp],
                              historySize),
              !.lastKnownPosition = <<position>>,
              !.isInGap = FALSE]

\* GPSGapFiller.processPosition() without a real position: the gap is marked
\* and fillGap() is returned
processPositionGap(g, now) ==
    IF g.isInGap THEN g ELSE [g EXCEPT !.isInGap = TRUE, !.gapStartTime = now]

\* ------------------------------------------------------ RunTracker.addPosition

\* The Kalman branch of addPosition: [s, filtered]
FilterKalman(s, std, accuracy) ==
    LET q == ProcessNoiseOf(s.activityType)
        lat == KalmanFilter([KalmanAdjustParameters(s.latFilter, accuracy)
                                EXCEPT !.Q = q], std.latitude)
        lon == KalmanFilter([KalmanAdjustParameters(s.lonFilter, accuracy)
                                EXCEPT !.Q = q], std.longitude)
        alt == IF std.altitude # null THEN KalmanFilter(s.altFilter, std.altitude)
               ELSE s.altFilter
    IN [s |-> [s EXCEPT !.latFilter = lat, !.lonFilter = lon, !.altFilter = alt],
        filtered |-> [std EXCEPT !.latitude = lat.x, !.longitude = lon.x,
                                 !.altitude = IF std.altitude # null THEN alt.x
                                              ELSE null]]

\* The weighted branch of addPosition: [s, filtered]
FilterWeighted(s, std, accuracy) ==
    LET readings == addReading(s.weightedFilter,
                               [lat |-> std.latitude, lon |-> std.longitude,
                                accuracy |-> accuracy, timestamp |-> std.timestamp])
        weightedResult == getWeightedAverage(readings)
    IN [s |-> [s EXCEPT !.weightedFilter = readings],
        filtered |-> [std EXCEPT !.latitude = weightedResult.lat,
                                 !.longitude = weightedResult.lon,
                                 !.accuracy = weightedResult.accuracy]]

\* "Apply GPS filtering based on selected mode": [s, filtered]
ApplyGpsFiltering(s, std, accuracy) ==
    IF s.gpsFilteringMode = "kalman" THEN FilterKalman(s, std, accuracy)
    ELSE IF s.gpsFilteringMode = "weighted" THEN FilterWeighted(s, std, accuracy)
    ELSE [s |-> s, filtered |-> std]

\* this.duration = (filteredPosition.timestamp - startTime - pausedTime) / 1000
FixDuration(s, timestamp) ==
    timestamp - s.startTime - s.pausedTime

\* A threshold that lets every increment count as movement
Moved_Always(distanceIncrement) ==
    ~isNaN(distanceIncrement)

\* distanceIncrement >= MOVEMENT_THRESHOLD (false for NaN)
Moved(distanceIncrement) ==
    ~isNaN(distanceIncrement) /\ distanceIncrement >= MOVEMENT_THRESHOLD

\* A slip of sign in the accumulation
AccumulateDistance_Subtracting(distance, distanceIncrement) ==
    distance - distanceIncrement

\* this.distance += distanceIncrement
AccumulateDistance(distance, distanceIncrement) ==
    distance + distanceIncrement

\* A goal that is never found reached
GoalReached_Never(s) ==
    FALSE

\* this.distanceGoal && this.distance >= this.distanceGoal
GoalReached(s) ==
    s.distanceGoal # null /\ s.distanceGoal # 0 /\ s.distance >= s.distanceGoal

\* this.distance > 0 ? Math.round(this.distance / this.strideLength) : 0
StepsForDistance(distance) ==
    IF distance > 0 THEN (2 * distance + strideLength) \div (2 * strideLength) ELSE 0

\* "If walking, calculate and emit steps"
UpdateSteps(s) ==
    IF s.activityType = "walk"
    THEN LET n == StepsForDistance(s.distance)
         IN Emit([s EXCEPT !.estimatedSteps = n], "stepsChange", n)
    ELSE s

\* Math.floor(currentDistanceInUnits) > Math.floor(lastSplitDistanceInUnits)
SplitDue(distance, lastSplitDistance, splitDistance) ==
    distance \div splitDistance > lastSplitDistance \div splitDistance

\* The split object pushed for the unit just completed.
NewSplit(s, splitDistance) ==
    LET previousSplitTime == IF Len(s.splits) > 0 THEN Last(s.splits).time ELSE 0
        splitDuration == s.duration - previousSplitTime
    IN [km |-> s.distance \div splitDistance,
        time |-> s.duration,
        pace |-> (splitDuration * 1000) \div splitDistance,
        isPartial |-> FALSE]

\* The split evaluation of addPosition
EvaluateSplit(s) ==
    LET splitDistance == SplitDistanceOf(getDistanceUnit(s))
    IN IF SplitDue(s.distance, s.lastSplitDistance, splitDistance)
       THEN LET splits == Append(s.splits, NewSplit(s, splitDistance))
            IN Emit([s EXCEPT !.splits = splits,
                              !.lastSplitDistance =
                                  (s.distance \div splitDistance) * splitDistance],
                    "splitRecorded", splits)
       ELSE s

\* "Store the filtered position" and the three updates after it
StorePosition(s, filtered) ==
    [s EXCEPT !.positions = Append(@, filtered),
              !.sensorFusion.deadReckoning =
                  DeadReckoningUpdateGPS(@, filtered.latitude, filtered.longitude,
                                         null, s.now),
              !.gpsGapFiller =
                  processPosition(@, [lat |-> filtered.latitude,
                                      lon |-> filtered.longitude,
                                      timestamp |-> filtered.timestamp,
                                      accuracy |-> filtered.accuracy], s.now),
              !.lastGPSTime = filtered.timestamp]

\* addPosition from "if (this.positions.length > 0)" on, for a position the
\* shared quality filter accepted: [s, stored]; stored is FALSE on the early
\* return after goalReached
MeasureFrom(s, filtered) ==
    LET last == Last(s.positions)
        distanceIncrement == calculateDistance(last.latitude, last.longitude,
                                               filtered.latitude, filtered.longitude)
        s1 == IF Moved(distanceIncrement)
              THEN LET d == AccumulateDistance(s.distance, distanceIncrement)
                   IN Emit([s EXCEPT !.distance = d], "distanceChange", d)
              ELSE s
    IN IF Moved(distanceIncrement) /\ GoalReached(s1)
       THEN [s |-> Emit(s1, "goalReached",
                        [distance |-> s1.distance, goal |-> s1.distanceGoal]),
             stored |-> FALSE]
       ELSE LET s2 == IF Moved(distanceIncrement) THEN UpdateSteps(s1) ELSE s1
                s3 == IF filtered.altitude # null
                      THEN updateElevation(s2, filtered.altitude) ELSE s2
            IN [s |-> EvaluateSplit(s3), stored |-> TRUE]

\* addPosition(newPosition); accept is what filterLocation(filteredPosition,
\* lastPositionStd) of utils/runCalculations answers when it is asked
addPosition(s, newPosition, accept) ==
    IF GateRejects(s, newPosition) THEN s
    ELSE LET std == standardise(newPosition, s.now)
             f == ApplyGpsFiltering(s, std, AccuracyOf(newPosition))
             duration == FixDuration(f.s, f.filtered.timestamp)
             s1 == Emit([f.s EXCEPT !.duration = duration], "durationChange", duration)
         IN IF Len(s1.positions) = 0 THEN StorePosition(s1, f.filtered)
            ELSE IF ~accept THEN s1
            ELSE LET m == MeasureFrom(s1, f.filtered)
                 IN IF m.stored THEN StorePosition(m.s, f.filtered) ELSE m.s

\* ---------------------------------------------------- speed, pace and sampling

\* a / b in thousandths, for mm / ms = m/s
PerSecond(a, b) ==
    MulDiv(a, 1000, b)

\* The full-session average calculateCurrentSpeed falls back to, in mm/s
AverageSpeed(s) ==
    IF s.distance > 0 /\ s.duration > 0 THEN PerSecond(s.distance, s.duration) ELSE 0

RECURSIVE RecentDistance(_, _)
\* The loop of calculateCurrentSpeed over recentPositions[1..n]
RecentDistance(recent, n) ==
    IF n <= 1 THEN 0
    ELSE LET before == RecentDistance(recent, n - 1)
             segment == calculateDistance(recent[n - 1].latitude, recent[n - 1].longitude,
                                          recent[n].latitude, recent[n].longitude)
         IN IF recent[n].timestamp - recent[n - 1].timestamp > 0
            THEN (IF isNaN(before) \/ isNaN(segment) THEN NaN ELSE before + segment)
            ELSE before

InSpeedWindow(s, pos) ==
    pos.timestamp >= Last(s.positions).timestamp - SPEED_WINDOW

\* calculateCurrentSpeed(): mm/s
calculateCurrentSpeed(s) ==
    IF Len(s.positions) < 2 THEN 0
    ELSE LET recent == SelectSeq(s.positions, LAMBDA pos : InSpeedWindow(s, pos))
         IN IF Len(recent) < 2 THEN AverageSpeed(s)
            ELSE LET recentDistance == RecentDistance(recent, Len(recent))
                     recentDuration == Last(recent).timestamp - recent[1].timestamp
                 IN IF recentDuration > 0 /\ ~isNaN(recentDistance) /\ recentDistance > 0
                    THEN PerSecond(recentDistance, recentDuration)
                    ELSE AverageSpeed(s)

\* getBatteryLevel(): a Promise when the Battery API exists, else null.  A
\* Promise compares like NaN: "batteryLevel < 30" is false for it.
getBatteryLevel(hasBatteryApi) ==
    IF hasBatteryApi THEN NaN ELSE null

BASE_INTERVAL_WALK == 15000
BASE_INTERVAL_RUN == 10000
BASE_INTERVAL_CYCLE == 5000
FAST_INTERVAL == 5000
MEDIUM_INTERVAL == 10000
SLOW_INTERVAL == 30000
MIN_INTERVAL == 3000
MAX_INTERVAL == 60000
HIGH_SPEED == 15000
MEDIUM_SPEED == 8000
LOW_SPEED == 500
LOW_BATTERY == 30
CRITICAL_BATTERY == 15
GOAL_NEAR == 1000000

BaseInterval(activityType) ==
    IF activityType = "walk" THEN BASE_INTERVAL_WALK
    ELSE IF activityType = "cycle" THEN BASE_INTERVAL_CYCLE
    ELSE BASE_INTERVAL_RUN

SpeedAdjusted(interval, speedMps) ==
    IF speedMps > HIGH_SPEED THEN Min(interval, FAST_INTERVAL)
    ELSE IF speedMps > MEDIUM_SPEED THEN Min(interval, MEDIUM_INTERVAL)
    ELSE IF speedMps < LOW_SPEED THEN Max(interval, SLOW_INTERVAL)
    ELSE interval

BatteryAdjusted(interval, batteryLevel) ==
    IF batteryLevel # null /\ ~isNaN(batteryLevel) /\ batteryLevel < LOW_BATTERY
    THEN (interval * 3) \div 2
    ELSE IF batteryLevel # null /\ ~isNaN(batteryLevel) /\ batteryLevel < CRITICAL_BATTERY
    THEN interval * 2
    ELSE interval

\* A rule that takes no notice of the goal
GoalAdjusted_Ignored(s, interval) ==
    interval

GoalAdjusted(s, interval) ==
    IF s.distanceGoal # null /\ s.distanceGoal # 0
       /\ s.distanceGoal - s.distance < GOAL_NEAR
    THEN Min(interval, FAST_INTERVAL)
    ELSE interval

BackgroundAdjusted(interval, hidden) ==
    IF hidden THEN Max(interval, SLOW_INTERVAL) ELSE interval

\* The interval in seconds, where the plugin takes milliseconds
calculateOptimalSamplingInterval_Seconds(s, hasBatteryApi, hidden) ==
    LET a == SpeedAdjusted(BaseInterval(s.activityType), calculateCurrentSpeed(s))
        b == BatteryAdjusted(a, getBatteryLevel(hasBatteryApi))
        c == BackgroundAdjusted(GoalAdjusted(s, b), hidden)
    IN Max(MIN_INTERVAL, Min(MAX_INTERVAL, c)) \div 1000

\* calculateOptimalSamplingInterval()
calculateOptimalSamplingInterval(s, hasBatteryApi, hidden) ==
    LET a == SpeedAdjusted(BaseInterval(s.activityType), calculateCurrentSpeed(s))
        b == BatteryAdjusted(a, getBatteryLevel(hasBatteryApi))
        c == BackgroundAdjusted(GoalAdjusted(s, b), hidden)
    IN Max(MIN_INTERVAL, Min(MAX_INTERVAL, c))

\* updateGpsSamplingRate(): the interval handed to BackgroundGeolocation.configure
updateGpsSamplingRate(s, hasBatteryApi, hidden) ==
    IF s.watchId = null \/ ~s.isTracking THEN s
    ELSE [s EXCEPT !.gpsInterval =
                       calculateOptimalSamplingInterval(s, hasBatteryApi, hidden)]

\* The speed shown, toFixed(1): tenths of km/h (x 3.6) or of mph (x 2.237)
SpeedValue(smoothedSpeedMps, unit) ==
    LET tenths == IF unit = "km" THEN MulDiv(smoothedSpeedMps, 36, 1000)
                  ELSE MulDiv(smoothedSpeedMps, 2237, 100000)
    IN IF smoothedSpeedMps > 0 THEN tenths ELSE 0

SpeedUnit(unit) ==
    IF unit = "km" THEN "km/h" ELSE "mph"

\* 0.7 * smoothed + 0.3 * raw when raw > 0, else 0.8 * smoothed
SmoothSpeed(smoothedSpeedMps, rawSpeedMps) ==
    IF rawSpeedMps > 0 THEN (7 * smoothedSpeedMps + 3 * rawSpeedMps) \div 10
    ELSE (8 * smoothedSpeedMps) \div 10

\* ------------------------------------------------- timers, watcher, suspensions

\* setInterval(callback, ...): a fresh handle, scheduled in s.intervals
SetInterval(s, kind) ==
    [s EXCEPT !.intervals = @ \cup {[id |-> s.nextId, kind |-> kind]},
              !.nextId = @ + 1]

\* clearInterval(handle): no effect for null or a handle cleared before
ClearInterval(s, handle) ==
    [s EXCEPT !.intervals = {i \in @ : i.id # handle}]

Scheduled(ivs, kind) ==
    \E i \in ivs : i.kind = kind

\* A call suspended at an await: k names the await, id the watcher or result
\* it carries, then the caller that goes on when cleanupWatchers returns
Suspended(k, id, then) ==
    [k |-> k, id |-> id, then |-> then]

Suspend(s, k, id, then) ==
    [s EXCEPT !.pending = @ (+) SetToBag({Suspended(k, id, then)})]

Resumed(s, c) ==
    [s EXCEPT !.pending = @ (-) SetToBag({c})]

startTimer(s) ==
    [SetInterval(s, "timer") EXCEPT !.timerInterval = s.nextId]

startAdaptiveSampling(s) ==
    [SetInterval(s, "adaptiveSampling") EXCEPT !.adaptiveSamplingInterval = s.nextId]

startGPSOutageDetection(s) ==
    [SetInterval(s, "gpsOutage") EXCEPT !.gpsOutageInterval = s.nextId]

startPaceCalculator(s) ==
    startGPSOutageDetection(
        startAdaptiveSampling(
            [SetInterval(s, "pace") EXCEPT !.paceInterval = s.nextId]))

stopTimer(s) ==
    IF s.timerInterval # null
    THEN [ClearInterval(s, s.timerInterval) EXCEPT !.timerInterval = null]
    ELSE s

StopAdaptiveSampling(s) ==
    IF s.adaptiveSamplingInterval # null
    THEN [ClearInterval(s, s.adaptiveSamplingInterval)
             EXCEPT !.adaptiveSamplingInterval = null]
    ELSE s

StopGPSOutageDetection(s) ==
    IF s.gpsOutageInterval # null
    THEN [ClearInterval(s, s.gpsOutageInterval) EXCEPT !.gpsOutageInterval = null]
    ELSE s

stopPaceCalculator(s) ==
    LET s1 == IF s.paceInterval # null
              THEN [ClearInterval(s, s.paceInterval) EXCEPT !.paceInterval = null]
              ELSE s
    IN StopGPSOutageDetection(StopAdaptiveSampling(s1))

\* cleanupWatchers() up to its await: with a watchId the call is suspended in
\* removeWatcher; without one it returns (done = TRUE)
cleanupWatchers(s, then) ==
    IF s.watchId # null
    THEN [s |-> Suspend(s, "removeWatcher", s.watchId, then), done |-> FALSE]
    ELSE [s |-> s, done |-> TRUE]

\* startTracking() up to its first await, addWatcher of the permission test
startTracking(s) ==
    IF ~s.localStorage.permissionsGranted THEN s
    ELSE Suspend(s, "permissionTest", null, "")

\* startTracking() from "await this.cleanupWatchers()" to the next await
StartTrackingCleanup(s) ==
    LET c == cleanupWatchers(s, "startTracking")
    IN IF c.done THEN Suspend(c.s, "addWatcher", null, "") ELSE c.s

\* localStorage.setItem('permissionsGranted', 'false'); emit('permissionError')
PermissionRefused(s) ==
    Emit([s EXCEPT !.localStorage.permissionsGranted = FALSE], "permissionError", 0)

\* error.message?.includes('permission')
MentionsPermission(outcome) ==
    outcome = "permission"

\* error.message?.includes('permission') || error.code === 'NOT_AUTHORIZED'
IsPermissionError(outcome) ==
    outcome = "permission" \/ outcome = "notAuthorized"

\* startTracking() resumed from the permission test: the test watcher stays
\* registered unless the 100 ms timeout happens to rebuild its id (removed)
AfterPermissionTest(s, outcome, removed) ==
    IF outcome = "ok"
    THEN StartTrackingCleanup(
             [s EXCEPT !.testWatchers = IF removed THEN @ ELSE @ + 1])
    ELSE IF MentionsPermission(outcome) THEN PermissionRefused(s)
    ELSE StartTrackingCleanup(s)

\* startTracking() resumed from addWatcher of the tracking session
AfterAddWatcher(s, outcome) ==
    IF outcome = "ok"
    THEN [s EXCEPT !.watchers = @ \cup {s.nextId}, !.watchId = s.nextId,
                   !.nextId = @ + 1]
    ELSE IF IsPermissionError(outcome) THEN PermissionRefused(s)
    ELSE s

\* The rest of pause() after "await this.cleanupWatchers()"
AfterPauseCleanup(s) ==
    Emit(ClearInterval(ClearInterval(s, s.timerInterval), s.paceInterval),
         "statusChange", [isTracking |-> s.isTracking, isPaused |-> s.isPaused])

\* cleanupWatchers() resumed from removeWatcher, and then its caller
AfterRemoveWatcher(s, c, ok) ==
    LET s1 == IF ok THEN [s EXCEPT !.watchers = @ \ {c.id}, !.watchId = null] ELSE s
    IN IF c.then = "pause" THEN AfterPauseCleanup(s1)
       ELSE IF c.then = "startTracking" THEN Suspend(s1, "addWatcher", null, "")
       ELSE s1

\* ----------------------------------------------------------------- lifecycle

ElevationInit ==
    [current |-> null, gain |-> 0, loss |-> 0, lastAltitude |-> null]

\* { value: 0, unit: getDistanceUnit() === 'km' ? 'km/h' : 'mph' }
SpeedInit(unit) ==
    [value |-> 0, unit |-> SpeedUnit(unit)]

\* The step callback start() hands to sensorFusion.onStepDetected
StepCallback(s) ==
    IF s.activityType = "walk"
    THEN Emit([s EXCEPT !.estimatedSteps = @ + 1], "stepsChange", s.estimatedSteps + 1)
    ELSE s

\* sensorFusion.onStepDetected(callback): the prototype's method stores the
\* callback under its own name; from then on the name is the stored callback,
\* and calling it runs that callback
onStepDetected(s) ==
    IF s.sensorFusion.onStepDetected = "method"
    THEN [s EXCEPT !.sensorFusion.onStepDetected = "callback"]
    ELSE StepCallback(s)

\* SensorFusionManager.startTracking()
SensorStartTracking(s) ==
    IF ~s.sensorFusion.isMotionAvailable THEN s
    ELSE [s EXCEPT !.sensorFusion.motionListener = TRUE,
                   !.motionListeners = @ + 1]

\* SensorFusionManager.stopTracking()
SensorStopTracking(s) ==
    LET s1 == IF s.sensorFusion.motionListener
              THEN [s EXCEPT !.sensorFusion.motionListener = FALSE,
                             !.motionListeners = @ - 1]
              ELSE s
    IN [s1 EXCEPT !.sensorFusion = SensorFusionReset(@)]

\* SensorFusionManager.initialize() resumed, and the then() of start()
AfterSensorInit(s, outcome) ==
    LET available == IF outcome = "granted" THEN TRUE
                     ELSE IF outcome = "denied" THEN FALSE
                     ELSE s.sensorFusion.isMotionAvailable
    IN onStepDetected(
           SensorStartTracking([s EXCEPT !.sensorFusion.isMotionAvailable = available]))

\* The motion listener: one devicemotion event of the given magnitude
MotionListener(s, magnitude) ==
    LET sc == s.sensorFusion.stepCounter
        s1 == [s EXCEPT !.sensorFusion.stepCounter =
                            processAcceleration(sc, magnitude, s.now)]
    IN IF StepDetected(sc, magnitude, s.now) /\ s.sensorFusion.onStepDetected = "callback"
       THEN StepCallback(s1)
       ELSE s1

\* start() up to "await import('@capacitor-community/keep-awake')"
start(s) ==
    IF s.isTracking /\ ~s.isPaused THEN s
    ELSE LET s1 == [s EXCEPT
                       !.activityType = s.localStorage.activityMode,
                       !.isTracking = TRUE,
                       !.isPaused = FALSE,
                       !.startTime = s.now,
                       !.pausedTime = 0,
                       !.positions = <<>>,
                       !.distance = 0,
                       !.duration = 0,
                       !.pace = 0,
                       !.estimatedSteps = 0,
                       !.currentSpeed = SpeedInit(getDistanceUnit(s)),
                       !.splits = <<>>,
                       !.lastSplitDistance = 0,
                       !.smoothedSpeedMps = 0,
                       !.elevation = ElevationInit,
                       !.latFilter = KalmanReset(@),
                       !.lonFilter = KalmanReset(@),
                       !.altFilter = KalmanReset(@),
                       !.weightedFilter = <<>>,
                       !.gpsGapFiller = GapFillerInit]
         IN Suspend(Suspend(s1, "sensorInit", null, ""), "start", null, "")

\* this.emit('statusChange', { isTracking, isPaused })
EmitStatus(s) ==
    Emit(s, "statusChange", [isTracking |-> s.isTracking, isPaused |-> s.isPaused])

\* A start() that starts the watcher and forgets the timers
AfterKeepAwake_WithoutTimers(s, lockAvailable) ==
    EmitStatus(startTracking(
        [s EXCEPT !.wakeLock = IF lockAvailable THEN TRUE ELSE @]))

\* start() resumed from the wake-lock awaits
AfterKeepAwake(s, lockAvailable) ==
    EmitStatus(startPaceCalculator(startTimer(startTracking(
        [s EXCEPT !.wakeLock = IF lockAvailable THEN TRUE ELSE @]))))

\* pause() without its guard
pause_Unguarded(s) ==
    LET c == cleanupWatchers([s EXCEPT !.isPaused = TRUE,
                                       !.lastPauseTime = s.now], "pause")
    IN IF c.done THEN AfterPauseCleanup(c.s) ELSE c.s

\* pause()
pause(s) ==
    IF ~s.isTracking \/ s.isPaused THEN s
    ELSE LET c == cleanupWatchers([s EXCEPT !.isPaused = TRUE,
                                            !.lastPauseTime = s.now], "pause")
         IN IF c.done THEN AfterPauseCleanup(c.s) ELSE c.s

\* The pause measured backwards
PausedTimeAfter_Reversed(pausedTime, lastPauseTime, now) ==
    pausedTime + (lastPauseTime - now)

\* this.pausedTime += Date.now() - this.lastPauseTime
PausedTimeAfter(pausedTime, lastPauseTime, now) ==
    pausedTime + (now - lastPauseTime)

\* resume()
resume(s) ==
    IF ~s.isTracking \/ ~s.isPaused THEN s
    ELSE EmitStatus(startPaceCalculator(startTimer(startTracking(
             [s EXCEPT !.isPaused = FALSE,
                       !.pausedTime = PausedTimeAfter(@, s.lastPauseTime, s.now)]))))

\* Math.floor((Date.now() - startTime - pausedTime) / 1000), kept in ms
FinalDuration(s) ==
    ((s.now - s.startTime - s.pausedTime) \div 1000) * 1000

RECURSIVE PathSplits(_, _, _, _, _)
\* runDataService.calculateStats(positions, duration).splits: one split for
\* each whole unit the path through positions[1..n] completes
PathSplits(positions, n, unit, travelled, splits) ==
    IF n > Len(positions) THEN splits
    ELSE LET step == calculateDistance(positions[n - 1].latitude,
                                       positions[n - 1].longitude,
                                       positions[n].latitude, positions[n].longitude)
             now == IF isNaN(step) THEN travelled ELSE travelled + step
             elapsed == positions[n].timestamp - positions[1].timestamp
             previous == IF Len(splits) > 0 THEN Last(splits).time ELSE 0
         IN PathSplits(positions, n + 1, unit, now,
                IF now \div unit > travelled \div unit
                THEN Append(splits, [km |-> now \div unit, time |-> elapsed,
                                     pace |-> ((elapsed - previous) * 1000) \div unit,
                                     isPartial |-> FALSE])
                ELSE splits)

calculateStatsSplits(s) ==
    PathSplits(s.positions, 2, SplitDistanceOf(getDistanceUnit(s)), 0, <<>>)

\* A fallback that replaces the recorded splits whenever there are positions
FallbackSplits_Always(s) ==
    IF Len(s.positions) > 0 THEN calculateStatsSplits(s) ELSE s.splits

\* "If we have positions but no splits, calculate them now as a fallback"
FallbackSplits(s) ==
    IF Len(s.positions) > 0 /\ Len(s.splits) = 0 /\ Len(calculateStatsSplits(s)) > 0
    THEN calculateStatsSplits(s)
    ELSE s.splits

\* The finalResults object of stop(); absent members are null
FinalResults(s) ==
    [distance |-> s.distance,
     duration |-> s.duration,
     pace |-> s.pace,
     splits |-> s.splits,
     elevation |-> [gain |-> s.elevation.gain, loss |-> s.elevation.loss],
     unit |-> getDistanceUnit(s),
     activityType |-> s.activityType,
     averageSpeed |-> IF s.activityType = "cycle" /\ s.distance > 0 /\ s.duration > 0
                      THEN SpeedValue(PerSecond(s.distance, s.duration),
                                      getDistanceUnit(s))
                      ELSE null,
     estimatedTotalSteps |-> IF s.activityType = "walk"
                                /\ ~(s.activityType = "cycle" /\ s.distance > 0
                                     /\ s.duration > 0)
                             THEN StepsForDistance(s.distance) ELSE null]

\* stopTracking()
stopTracking(s) ==
    SensorStopTracking(cleanupWatchers(s, "").s)

\* stop(publicKey) up to "await import('@capacitor-community/keep-awake')"
stop(s) ==
    IF ~s.isTracking THEN s
    ELSE LET s1 == [s EXCEPT !.isTracking = FALSE, !.isPaused = FALSE,
                             !.distanceGoal = null, !.duration = FinalDuration(s)]
             s2 == IF s1.distance > 0 /\ s1.duration > 0
                   THEN [s1 EXCEPT !.pace = calculatePace(s1.distance, s1.duration,
                                                          getDistanceUnit(s1))]
                   ELSE s1
             s3 == [s2 EXCEPT !.splits = FallbackSplits(s2)]
             s4 == [s3 EXCEPT !.savedRuns = Append(@, FinalResults(s3))]
         IN Suspend(stopPaceCalculator(stopTimer(stopTracking(s4))),
                    "stop", Len(s4.savedRuns), "")

\* stop() without its return statement
AfterAllowSleep_NoReturn(s, c, lockAvailable) ==
    LET s1 == [s EXCEPT !.wakeLock = IF lockAvailable THEN FALSE ELSE @]
        s2 == Emit(s1, "statusChange", [isTracking |-> FALSE, isPaused |-> FALSE])
    IN Emit(s2, "runCompleted", s.savedRuns[c.id])

\* stop() resumed from the wake-lock awaits
AfterAllowSleep(s, c, lockAvailable) ==
    LET s1 == [s EXCEPT !.wakeLock = IF lockAvailable THEN FALSE ELSE @]
        s2 == Emit(s1, "statusChange", [isTracking |-> FALSE, isPaused |-> FALSE])
    IN [Emit(s2, "runCompleted", s.savedRuns[c.id])
           EXCEPT !.returned = <<s.savedRuns[c.id]>>]

\* The assignments restoreTracking and restoreTrackingPaused share: absent
\* members of savedState are null, <<>> for averageSpeed and "" for
\* activityType
RestoredFields(s, savedState) ==
    [s EXCEPT !.distance = savedState.distance,
              !.duration = savedState.duration,
              !.pace = savedState.pace,
              !.splits = savedState.splits,
              !.estimatedSteps = IF savedState.estimatedTotalSteps = null THEN 0
                                 ELSE savedState.estimatedTotalSteps,
              !.currentSpeed = IF savedState.averageSpeed = <<>>
                               THEN SpeedInit(getDistanceUnit(s))
                               ELSE savedState.averageSpeed[1],
              !.elevation = [savedState.elevation EXCEPT
                                !.lastAltitude = savedState.elevation.current],
              !.activityType = IF savedState.activityType = "" THEN "run"
                               ELSE savedState.activityType]

\* The seven events both restores emit
RestoreEmits(s) ==
    Emit(Emit(Emit(Emit(Emit(Emit(Emit(s,
        "distanceChange", s.distance),
        "durationChange", s.duration),
        "paceChange", s.pace),
        "splitRecorded", s.splits),
        "elevationChange", s.elevation),
        "stepsChange", s.estimatedSteps),
        "speedChange", s.currentSpeed)

\* restoreTracking(savedState)
restoreTracking(s, savedState) ==
    LET s1 == RestoredFields(s, savedState)
        duration == s1.duration + (s.now - savedState.timestamp)
    IN RestoreEmits(startPaceCalculator(startTimer(startTracking(
           [s1 EXCEPT !.duration = duration,
                      !.isTracking = TRUE,
                      !.isPaused = FALSE,
                      !.startTime = s.now - duration,
                      !.pausedTime = 0,
                      !.lastPauseTime = 0]))))

\* A paused restore that does not note when the pause began
restoreTrackingPaused_Unmarked(s, savedState) ==
    RestoreEmits([RestoredFields(s, savedState) EXCEPT
                     !.isTracking = TRUE,
                     !.isPaused = TRUE,
                     !.startTime = s.now - savedState.duration,
                     !.pausedTime = 0,
                     !.lastPauseTime = 0])

\* restoreTrackingPaused(savedState)
restoreTrackingPaused(s, savedState) ==
    RestoreEmits([RestoredFields(s, savedState) EXCEPT
                     !.isTracking = TRUE,
                     !.isPaused = TRUE,
                     !.startTime = s.now - savedState.duration,
                     !.pausedTime = 0,
                     !.lastPauseTime = s.now])

\* setDistanceGoal(meters)
setDistanceGoal(s, meters) ==
    [s EXCEPT !.distanceGoal = IF meters # null /\ meters > 0 THEN meters ELSE null]

clearDistanceGoal(s) ==
    [s EXCEPT !.distanceGoal = null]

\* ------------------------------------------------------------ timer callbacks

\* The callback of startTimer
TimerCallback(s) ==
    IF s.isTracking /\ ~s.isPaused
    THEN LET d == s.now - s.startTime - s.pausedTime
         IN Emit([s EXCEPT !.duration = d], "durationChange", d)
    ELSE s

\* The callback of startPaceCalculator
PaceCallback(s) ==
    IF ~(s.isTracking /\ ~s.isPaused) THEN s
    ELSE IF s.activityType = "cycle"
    THEN LET smoothed == SmoothSpeed(s.smoothedSpeedMps, calculateCurrentSpeed(s))
             speed == [value |-> SpeedValue(smoothed, getDistanceUnit(s)),
                       unit |-> SpeedUnit(getDistanceUnit(s))]
         IN Emit([s EXCEPT !.smoothedSpeedMps = smoothed, !.currentSpeed = speed],
                 "speedChange", speed)
    ELSE LET p == calculatePace(s.distance, s.duration, getDistanceUnit(s))
         IN Emit([s EXCEPT !.pace = p], "paceChange", p)

\* The callback of startAdaptiveSampling
AdaptiveSamplingCallback(s, hidden) ==
    IF s.isTracking /\ ~s.isPaused
    THEN updateGpsSamplingRate(s, s.device.battery, hidden)
    ELSE s

\* A synthetic position that claims the accuracy of a good fix
SyntheticAccuracy_OfGoodFix(scale, confidence) ==
    5

\* scale / confidence in metres, rounded up: "accuracy > 20" is decided alike
SyntheticAccuracy(scale, confidence) ==
    (scale * 1000 + confidence - 1) \div confidence

\* The synthetic position the outage callback hands to addPosition
SyntheticPosition(p, scale, now) ==
    [latitude |-> p.lat, longitude |-> p.lon,
     accuracy |-> SyntheticAccuracy(scale, p.confidence),
     altitude |-> null, timestamp |-> now]

\* this.addPosition(syntheticPosition) in the outage callback: input records
\* every position that was handed over
AddSyntheticPosition(s, synthetic, accept) ==
    addPosition([s EXCEPT !.input = Append(@, synthetic)], synthetic, accept)

\* An outage callback that does not wait for the threshold to pass
GPSOutageCallback_WithoutThreshold(s, accept) ==
    IF ~(s.isTracking /\ ~s.isPaused) THEN s
    ELSE IF ~(s.lastGPSTime > 0) THEN s
    ELSE LET predicted == fillGap(s.gpsGapFiller, s.now)
         IN IF predicted # <<>> /\ predicted[1].confidence > 500
            THEN AddSyntheticPosition(s, SyntheticPosition(predicted[1], 25, s.now),
                                      accept)
            ELSE LET e == estimatePosition(s.sensorFusion.deadReckoning,
                                           s.sensorFusion.stepCounter.stepCount)
                     s1 == [s EXCEPT !.sensorFusion.deadReckoning = e.dr]
                 IN IF e.result # <<>> /\ e.result[1].confidence > 300
                    THEN AddSyntheticPosition(s1,
                                              SyntheticPosition(e.result[1], 50, s.now),
                                              accept)
                    ELSE s1

\* The callback of startGPSOutageDetection
GPSOutageCallback(s, accept) ==
    IF ~(s.isTracking /\ ~s.isPaused) THEN s
    ELSE IF ~(s.now - s.lastGPSTime > gpsOutageThreshold /\ s.lastGPSTime > 0) THEN s
    ELSE LET predicted == fillGap(s.gpsGapFiller, s.now)
         IN IF predicted # <<>> /\ predicted[1].confidence > 500
            THEN AddSyntheticPosition(s, SyntheticPosition(predicted[1], 25, s.now),
                                      accept)
            ELSE LET e == estimatePosition(s.sensorFusion.deadReckoning,
                                           s.sensorFusion.stepCounter.stepCount)
                     s1 == [s EXCEPT !.sensorFusion.deadReckoning = e.dr]
                 IN IF e.result # <<>> /\ e.result[1].confidence > 300
                    THEN AddSyntheticPosition(s1,
                                              SyntheticPosition(e.result[1], 50, s.now),
                                              accept)
                    ELSE s1

\* The callback startTracking() gives the tracking watcher, called with an error
WatcherErrorCallback(s, outcome) ==
    IF IsPermissionError(outcome) THEN cleanupWatchers(PermissionRefused(s), "").s
    ELSE s

\* The callback startTracking() gives the permission-test watcher
TestWatcherCallback(s, outcome) ==
    IF IsPermissionError(outcome) THEN PermissionRefused(s) ELSE s

\* ------------------------------------------------------------------- state

VARIABLES
    \* ---- the fields of the RunTracker instance
    activityType,
    distance,
    duration,
    pace,
    estimatedSteps,
    currentSpeed,
    splits,
    positions,
    distanceGoal,
    elevation,
    isTracking,
    isPaused,
    startTime,
    pausedTime,
    lastPauseTime,
    lastSplitDistance,
    watchId,
    timerInterval,
    paceInterval,
    adaptiveSamplingInterval,
    gpsOutageInterval,
    smoothedSpeedMps,
    latFilter,
    lonFilter,
    altFilter,
    weightedFilter,
    gpsFilteringMode,
    sensorFusion,
    lastGPSTime,
    gpsGapFiller,
    \* ---- the platform: storage, clock, timers, plugins, calls in flight
    gpsInterval,
    localStorage,
    device,
    now,
    intervals,
    nextId,
    pending,
    watchers,
    testWatchers,
    motionListeners,
    wakeLock,
    savedRuns,
    \* ---- what an observer holds: the session as pause() found it, the handler
    \* that ran last with its argument, the events it emitted, the value it
    \* returned, and what is left of the inputs
    pauseSnapshot,
    op,
    input,
    emitted,
    returned,
    budget

vars ==
    <<activityType, distance, duration, pace, estimatedSteps, currentSpeed,
      splits, positions, distanceGoal, elevation, isTracking, isPaused,
      startTime, pausedTime, lastPauseTime, lastSplitDistance, watchId,
      timerInterval, paceInterval, adaptiveSamplingInterval,
      gpsOutageInterval, smoothedSpeedMps, latFilter, lonFilter, altFilter,
      weightedFilter, gpsFilteringMode, sensorFusion, lastGPSTime,
      gpsGapFiller, gpsInterval, localStorage, device, now, intervals,
      nextId, pending, watchers, testWatchers, motionListeners, wakeLock,
      savedRuns, pauseSnapshot, op, input,
      emitted, returned, budget>>

\* The tracker and its platform as one record, as a handler finds them
S ==
    [activityType |-> activityType,
     distance |-> distance,
     duration |-> duration,
     pace |-> pace,
     estimatedSteps |-> estimatedSteps,
     currentSpeed |-> currentSpeed,
     splits |-> splits,
     positions |-> positions,
     distanceGoal |-> distanceGoal,
     elevation |-> elevation,
     isTracking |-> isTracking,
     isPaused |-> isPaused,
     startTime |-> startTime,
     pausedTime |-> pausedTime,
     lastPauseTime |-> lastPauseTime,
     lastSplitDistance |-> lastSplitDistance,
     watchId |-> watchId,
     timerInterval |-> timerInterval,
     paceInterval |-> paceInterval,
     adaptiveSamplingInterval |-> adaptiveSamplingInterval,
     gpsOutageInterval |-> gpsOutageInterval,
     smoothedSpeedMps |-> smoothedSpeedMps,
     latFilter |-> latFilter,
     lonFilter |-> lonFilter,
     altFilter |-> altFilter,
     weightedFilter |-> weightedFilter,
     gpsFilteringMode |-> gpsFilteringMode,
     sensorFusion |-> sensorFusion,
     lastGPSTime |-> lastGPSTime,
     gpsGapFiller |-> gpsGapFiller,
     gpsInterval |-> gpsInterval,
     localStorage |-> localStorage,
     device |-> device,
     now |-> now,
     intervals |-> intervals,
     nextId |-> nextId,
     pending |-> pending,
     watchers |-> watchers,
     testWatchers |-> testWatchers,
     motionListeners |-> motionListeners,
     wakeLock |-> wakeLock,
     savedRuns |-> savedRuns,
     pauseSnapshot |-> pauseSnapshot,
     input |-> <<>>,
     emitted |-> <<>>,
     returned |-> <<>>]

\* The tracker and its platform as the handler named name left them
Commit(s, name, spent) ==
    /\ activityType' = s.activityType
    /\ distance' = s.distance
    /\ duration' = s.duration
    /\ pace' = s.pace
    /\ estimatedSteps' = s.estimatedSteps
    /\ currentSpeed' = s.currentSpeed
    /\ splits' = s.splits
    /\ positions' = s.positions
    /\ distanceGoal' = s.distanceGoal
    /\ elevation' = s.elevation
    /\ isTracking' = s.isTracking
    /\ isPaused' = s.isPaused
    /\ startTime' = s.startTime
    /\ pausedTime' = s.pausedTime
    /\ lastPauseTime' = s.lastPauseTime
    /\ lastSplitDistance' = s.lastSplitDistance
    /\ watchId' = s.watchId
    /\ timerInterval' = s.timerInterval
    /\ paceInterval' = s.paceInterval
    /\ adaptiveSamplingInterval' = s.adaptiveSamplingInterval
    /\ gpsOutageInterval' = s.gpsOutageInterval
    /\ smoothedSpeedMps' = s.smoothedSpeedMps
    /\ latFilter' = s.latFilter
    /\ lonFilter' = s.lonFilter
    /\ altFilter' = s.altFilter
    /\ weightedFilter' = s.weightedFilter
    /\ gpsFilteringMode' = s.gpsFilteringMode
    /\ sensorFusion' = s.sensorFusion
    /\ lastGPSTime' = s.lastGPSTime
    /\ gpsGapFiller' = s.gpsGapFiller
    /\ gpsInterval' = s.gpsInterval
    /\ localStorage' = s.localStorage
    /\ device' = s.device
    /\ now' = s.now
    /\ intervals' = s.intervals
    /\ nextId' = s.nextId
    /\ pending' = s.pending
    /\ watchers' = s.watchers
    /\ testWatchers' = s.testWatchers
    /\ motionListeners' = s.motionListeners
    /\ wakeLock' = s.wakeLock
    /\ savedRuns' = s.savedRuns
    /\ pauseSnapshot' = s.pauseSnapshot
    /\ op' = name
    /\ input' = s.input
    /\ emitted' = s.emitted
    /\ returned' = s.returned
    /\ budget' = IF spent = "" THEN budget ELSE [budget EXCEPT ![spent] = @ - 1]

\* ------------------------------------------------------------------ inputs

\* Date.now() when the tracker is constructed, and the advances of the clock
T0 == 100000
ClockSteps == {1000, 12000}
FixPeriod == 3000

\* What localStorage holds when the tracker is constructed
Settings ==
    {[activityMode |-> "run", distanceUnit |-> "km", gpsFilteringMode |-> "none"],
     [activityMode |-> "walk", distanceUnit |-> "km", gpsFilteringMode |-> "kalman"],
     [activityMode |-> "cycle", distanceUnit |-> "mi", gpsFilteringMode |-> "weighted"]}

\* The device: the keep-awake plugin, the motion sensor ("granted", "denied",
\* or "none" without DeviceMotionEvent), the Battery API and the charge in
\* percent that navigator.getBattery() resolves to
Phone ==
    [keepAwake |-> TRUE, motion |-> "granted", battery |-> TRUE, level |-> 80]

Browser ==
    [keepAwake |-> FALSE, motion |-> "none", battery |-> FALSE, level |-> null]

\* How a call of the BackgroundGeolocation plugin ends: resolved, or rejected
\* with a message that mentions the permission, with the code NOT_AUTHORIZED,
\* or with another error
Outcomes == {"ok", "permission", "notAuthorized", "error"}

Goals == {0, 1000000}

Magnitudes == {5, 15}

Fix(latitude, longitude, accuracy, altitude, timestamp) ==
    [latitude |-> latitude, longitude |-> longitude, accuracy |-> accuracy,
     altitude |-> altitude, timestamp |-> timestamp]

\* Fixes the gate of addPosition lets through at time t: a first point, GPS
\* jitter next to it delivered late, a point one kilometre on, and a point
\* four kilometres on
GoodFixes(t) ==
    {Fix(1000, 500, 5, 100000, 0),
     Fix(1004, 500, 10, null, t - 5000),
     Fix(10000, 500, 5, 103000, 0),
     Fix(37000, 500, 20, 101000, 0)}

\* The next fix of a route due north in steps of RouteStep that climbs three
\* metres a step
RouteStep == 11000

RouteFix(stored) ==
    IF Len(stored) = 0 THEN Fix(1000, 500, 5, 100000, 0)
    ELSE Fix(Last(stored).latitude + RouteStep, 500, 5,
             100000 + 3000 * Len(stored), 0)

\* Fixes the gate turns away
BadFixes ==
    {Fix(1000, 500, 25, null, 0),
     Fix(1000, 500, null, null, 0),
     Fix(91000000, 500, 5, null, 0),
     Fix(1000, 200000000, 5, null, 0),
     Fix(NaN, 500, 5, null, 0),
     Fix(1000, NaN, 5, null, 0)}

\* ---------------------------------------------------------------- Init

\* new RunTracker() on a device with the given settings
Constructed(settings, dev, granted, allowance) ==
    /\ activityType = settings.activityMode
    /\ distance = 0
    /\ duration = 0
    /\ pace = 0
    /\ estimatedSteps = 0
    /\ currentSpeed = [value |-> 0, unit |-> "km/h"]
    /\ splits = <<>>
    /\ positions = <<>>
    /\ distanceGoal = null
    /\ elevation = ElevationInit
    /\ isTracking = FALSE
    /\ isPaused = FALSE
    /\ startTime = 0
    /\ pausedTime = 0
    /\ lastPauseTime = 0
    /\ lastSplitDistance = 0
    /\ watchId = null
    /\ timerInterval = null
    /\ paceInterval = null
    /\ adaptiveSamplingInterval = null
    /\ gpsOutageInterval = null
    /\ smoothedSpeedMps = 0
    /\ latFilter = KalmanFilter1D(3000, 10)
    /\ lonFilter = KalmanFilter1D(3000, 10)
    /\ altFilter = KalmanFilter1D(1000, 50)
    /\ weightedFilter = <<>>
    /\ gpsFilteringMode = settings.gpsFilteringMode
    /\ sensorFusion = SensorFusionInit
    /\ lastGPSTime = 0
    /\ gpsGapFiller = GapFillerInit
    /\ gpsInterval = null
    /\ localStorage = [activityMode |-> settings.activityMode,
                       distanceUnit |-> settings.distanceUnit,
                       permissionsGranted |-> granted]
    /\ device = dev
    /\ now = T0
    /\ intervals = {}
    /\ nextId = 1
    /\ pending = EmptyBag
    /\ watchers = {}
    /\ testWatchers = 0
    /\ motionListeners = 0
    /\ wakeLock = FALSE
    /\ savedRuns = <<>>
    /\ pauseSnapshot = <<>>
    /\ op = "constructor"
    /\ input = <<>>
    /\ emitted = <<>>
    /\ returned = <<>>
    /\ budget = allowance

Allowance(calls, fixes, clock, motion, ticks) ==
    [calls |-> calls, fixes |-> fixes, clock |-> clock, motion |-> motion,
     ticks |-> ticks, errors |-> 0, idle |-> MaxIdle]

Init ==
    \E settings \in Settings :
        Constructed(settings, Phone, TRUE, Allowance(MaxCalls, MaxFixes, 0, 0, 0))

\* ---------------------------------------------------------------- actions

\* No call is suspended at an await
Quiet ==
    pending = EmptyBag

\* The budget a step draws on: its own, or that of the idle steps when the
\* handler returns at once
Spends(acts, what) ==
    IF acts THEN what ELSE "idle"

Allowed(acts, what) ==
    budget[Spends(acts, what)] > 0

\* isTracking && !isPaused
Recording ==
    isTracking /\ ~isPaused

\* The session as pause() finds it
Snapshot(s) ==
    <<[distance |-> s.distance, duration |-> s.duration, pace |-> s.pace,
       splits |-> s.splits, elevation |-> s.elevation,
       estimatedSteps |-> s.estimatedSteps, pausedTime |-> s.pausedTime,
       now |-> s.now]>>

\* tracker.start(), up to its first await
Start ==
    /\ Allowed(~Recording, "calls")
    /\ Commit(start(S), "start", Spends(~Recording, "calls"))

\* tracker.pause(), up to its await
Pause ==
    /\ Allowed(Recording, "calls")
    /\ Commit([pause(S) EXCEPT !.pauseSnapshot = IF Recording THEN Snapshot(S) ELSE @],
              "pause", Spends(Recording, "calls"))

\* tracker.resume()
Resume ==
    /\ Allowed(isTracking /\ isPaused, "calls")
    /\ Commit(resume(S), "resume", Spends(isTracking /\ isPaused, "calls"))

\* tracker.stop(), up to its await
Stop ==
    /\ Allowed(isTracking, "calls")
    /\ Commit(stop(S), "stop", Spends(isTracking, "calls"))

\* tracker.setDistanceGoal(meters)
SetDistanceGoal ==
    /\ budget.calls > 0
    /\ \E meters \in Goals : Commit(setDistanceGoal([S EXCEPT !.input = <<meters>>], meters),
                  "setDistanceGoal", "calls")

\* The same calls from a client that lets every call in flight finish first
AwaitedStart ==
    Quiet /\ Start

AwaitedPause ==
    Quiet /\ Pause

AwaitedResume ==
    Quiet /\ Resume

AwaitedStop ==
    Quiet /\ Stop

AwaitedSetDistanceGoal ==
    Quiet /\ SetDistanceGoal

\* tracker.addPosition(fix) while no call is suspended
AddPositionFrom(fixes, delays) ==
    /\ Quiet
    /\ \E fix \in fixes, accept \in BOOLEAN, d \in delays :
           /\ Allowed(~GateRejects(S, fix), "fixes")
           /\ Commit(addPosition([S EXCEPT !.now = @ + d, !.input = <<fix>>], fix, accept),
                     "addPosition",
                     Spends(~GateRejects(S, fix), "fixes"))

\* Any fix, from the watcher callback or from any caller, FixPeriod after the
\* step before
AddPosition ==
    AddPositionFrom(GoodFixes(now + FixPeriod) \cup BadFixes, {FixPeriod})

\* The next fix of the route
AddRoutePosition ==
    AddPositionFrom({RouteFix(positions)}, {0})

\* Date.now() moves on during a session
ClockAdvance ==
    /\ Quiet
    /\ isTracking
    /\ budget.clock > 0
    /\ \E d \in ClockSteps : Commit([S EXCEPT !.now = @ + d], "clock", "clock")

\* A devicemotion event reaches the listeners
Motion ==
    /\ Quiet
    /\ budget.motion > 0
    /\ motionListeners > 0
    /\ \E magnitude \in Magnitudes :
           Commit(MotionListener([S EXCEPT !.input = <<magnitude>>], magnitude),
                  "motion", "motion")

\* An interval callback can run: its interval is scheduled
Due(kind) ==
    /\ Quiet
    /\ Scheduled(intervals, kind)
    /\ Allowed(Recording, "ticks")

TimerTick ==
    /\ Due("timer")
    /\ Commit(TimerCallback(S), "timer", Spends(Recording, "ticks"))

PaceTick ==
    /\ Due("pace")
    /\ Commit(PaceCallback(S), "pace", Spends(Recording, "ticks"))

AdaptiveSamplingTick ==
    /\ Due("adaptiveSampling")
    /\ \E hidden \in BOOLEAN :
           Commit(AdaptiveSamplingCallback(S, hidden), "adaptiveSampling",
                  Spends(Recording, "ticks"))

GPSOutageTick ==
    /\ Due("gpsOutage")
    /\ \E accept \in BOOLEAN :
           Commit(GPSOutageCallback(S, accept), "gpsOutage", Spends(Recording, "ticks"))

\* The continuations of the suspended calls
Continuations(k) ==
    {c \in BagToSet(pending) : c.k = k}

\* start() goes on after KeepAwake.keepAwake()
ResumeStart ==
    \E c \in Continuations("start") :
        Commit(AfterKeepAwake(Resumed(S, c), device.keepAwake), "keepAwake", "")

\* sensorFusion.initialize() settles
ResumeSensorInit ==
    \E c \in Continuations("sensorInit") :
        Commit(AfterSensorInit(Resumed(S, c), device.motion), "sensorInit", "")

\* stop() goes on after KeepAwake.allowSleep()
ResumeStop ==
    \E c \in Continuations("stop") :
        Commit(AfterAllowSleep(Resumed(S, c), c, device.keepAwake), "allowSleep", "")

\* The plugin answers the way a device with the permission does
GrantedPermissionTest ==
    \E c \in Continuations("permissionTest"), removed \in BOOLEAN :
        Commit(AfterPermissionTest(Resumed(S, c), "ok", removed), "permissionTest", "")

GrantedAddWatcher ==
    \E c \in Continuations("addWatcher") :
        Commit(AfterAddWatcher(Resumed(S, c), "ok"), "addWatcher", "")

GrantedRemoveWatcher ==
    \E c \in Continuations("removeWatcher") :
        Commit(AfterRemoveWatcher(Resumed(S, c), c, TRUE), "removeWatcher", "")

\* The plugin answers in any way it can
ResumePermissionTest ==
    \E c \in Continuations("permissionTest"), outcome \in Outcomes, removed \in BOOLEAN :
        Commit(AfterPermissionTest(Resumed(S, c), outcome, removed),
               "permissionTest", "")

ResumeAddWatcher ==
    \E c \in Continuations("addWatcher"), outcome \in Outcomes :
        Commit(AfterAddWatcher(Resumed(S, c), outcome), "addWatcher", "")

ResumeRemoveWatcher ==
    \E c \in Continuations("removeWatcher"), ok \in BOOLEAN :
        Commit(AfterRemoveWatcher(Resumed(S, c), c, ok), "removeWatcher", "")

\* The plugin calls a watcher's callback with an error
WatcherError ==
    /\ budget.errors > 0
    /\ watchers # {}
    /\ \E outcome \in Outcomes \ {"ok"} :
           Commit(WatcherErrorCallback(S, outcome), "watcherError", "errors")

TestWatcherError ==
    /\ budget.errors > 0
    /\ testWatchers > 0
    /\ \E outcome \in Outcomes \ {"ok"} :
           Commit(TestWatcherCallback(S, outcome), "testWatcherError", "errors")

\* ----------------------------------------------------------- specifications

\* Granted: the calls in flight go on, on a device that has the permission
Granted ==
    \/ ResumeStart
    \/ ResumeSensorInit
    \/ ResumeStop
    \/ GrantedPermissionTest
    \/ GrantedAddWatcher
    \/ GrantedRemoveWatcher

\* Fixes of every kind reach a session that one client starts, pauses and stops
Next ==
    \/ AwaitedSetDistanceGoal
    \/ AwaitedStart
    \/ AwaitedPause
    \/ AwaitedStop
    \/ AddPosition
    \/ Granted

Spec ==
    Init /\ [][Next]_vars

\* A session one client starts, pauses, resumes and stops while the clock, the
\* timers, the motion sensor and the fixes of a short route go on
NextSession ==
    \/ AwaitedStart
    \/ AwaitedPause
    \/ AwaitedResume
    \/ AwaitedStop
    \/ AddRoutePosition
    \/ ClockAdvance
    \/ Motion
    \/ TimerTick
    \/ PaceTick
    \/ AdaptiveSamplingTick
    \/ GPSOutageTick
    \/ Granted

InitSession ==
    \E settings \in {s \in Settings : s.activityMode = "walk"} :
        Constructed(settings, Phone, TRUE,
                    Allowance(SessionCalls, SessionFixes, SessionClock, SessionMotion,
                              SessionTicks))

SpecSession ==
    InitSession /\ [][NextSession]_vars

\* Calls made without waiting for one another, on a device that has the
\* permission
NextInterleaved ==
    \/ Start
    \/ Pause
    \/ Resume
    \/ Stop
    \/ Granted

InitInterleaved ==
    Constructed(CHOOSE s \in Settings : s.activityMode = "run", Phone, TRUE,
                Allowance(AsyncCalls, 0, 0, 0, 0))

SpecInterleaved ==
    InitInterleaved /\ [][NextInterleaved]_vars

\* Calls made without waiting for one another, on a device whose plugin can
\* refuse or fail
NextAsync ==
    \/ Start
    \/ Pause
    \/ Resume
    \/ Stop
    \/ ResumeStart
    \/ ResumeSensorInit
    \/ ResumeStop
    \/ ResumePermissionTest
    \/ ResumeAddWatcher
    \/ ResumeRemoveWatcher
    \/ WatcherError
    \/ TestWatcherError

InitAsync ==
    \E granted \in BOOLEAN, dev \in {Phone, Browser} :
        Constructed(CHOOSE s \in Settings : s.activityMode = "run", dev, granted,
                    [Allowance(AsyncCalls, 0, 0, 0, 0) EXCEPT !.errors = AsyncErrors])

SpecAsync ==
    InitAsync /\ [][NextAsync]_vars

\* Fixes FixPeriod apart that make the measured speed slow (under 0.5 m/s),
\* moderate, medium (over 8 m/s) and high (over 15 m/s)
SpeedFixes ==
    {Fix(1000, 500, 5, null, 0),
     Fix(1004, 500, 5, null, 0),
     Fix(1030, 500, 5, null, 0),
     Fix(1300, 500, 5, null, 0),
     Fix(10000, 500, 5, null, 0)}

AddSpeedPosition ==
    AddPositionFrom(SpeedFixes, {FixPeriod})

\* A session of any activity, with or without a goal and a Battery API, whose
\* sampling interval is recomputed in the foreground and in the background
NextSampling ==
    \/ AwaitedStart
    \/ AwaitedStop
    \/ AwaitedSetDistanceGoal
    \/ AddSpeedPosition
    \/ AdaptiveSamplingTick
    \/ Granted

InitSampling ==
    \E settings \in Settings, dev \in {Phone, Browser} :
        Constructed(settings, dev, TRUE,
                    Allowance(SamplingCalls, SamplingFixes, 0, 0, SamplingTicks))

SpecSampling ==
    InitSampling /\ [][NextSampling]_vars

\* How long after the step before a call of the gap filler comes
GapDelays == {5000, 40000, 70000}

\* gpsGapFiller.processPosition(position) with the next real fix of a walk
\* due north, about a metre a fix
ProcessRealPosition ==
    /\ budget.fixes > 0
    /\ LET t == now + FixPeriod
           position == [lat |-> 1000 + 10 * Len(gpsGapFiller.positionHistory),
                        lon |-> 500, timestamp |-> t, accuracy |-> 5]
       IN Commit([S EXCEPT !.now = t,
                           !.input = <<position>>,
                           !.gpsGapFiller = processPosition(@, position, t),
                           !.returned = <<position>>],
                 "processPosition", "fixes")

\* gpsGapFiller.processPosition() without a position: the gap is marked and
\* the answer of fillGap() returned
ProcessMissingPosition ==
    /\ budget.calls > 0
    /\ \E d \in GapDelays :
           LET t == now + d
               g == processPositionGap(gpsGapFiller, t)
           IN Commit([S EXCEPT !.now = t, !.gpsGapFiller = g,
                               !.returned = fillGap(g, t)],
                     "processPositionGap", "calls")

\* gpsGapFiller.fillGap()
FillGap ==
    /\ budget.calls > 0
    /\ \E d \in GapDelays :
           LET t == now + d
           IN Commit([S EXCEPT !.now = t, !.returned = fillGap(gpsGapFiller, t)],
                     "fillGap", "calls")

\* A gap filler that is fed real fixes and asked to fill the gaps between them
NextGapFiller ==
    \/ ProcessRealPosition
    \/ ProcessMissingPosition
    \/ FillGap

InitGapFiller ==
    \E settings \in Settings :
        Constructed(settings, Phone, TRUE, Allowance(GapCalls, GapFixes, 0, 0, 0))

SpecGapFiller ==
    InitGapFiller /\ [][NextGapFiller]_vars

\* The waits of a session whose GPS has gone silent
OutageSteps == {12000, 35000}

\* Date.now() moves on while no fix arrives
OutageWait ==
    /\ Quiet
    /\ isTracking
    /\ budget.clock > 0
    /\ \E d \in OutageSteps : Commit([S EXCEPT !.now = @ + d], "clock", "clock")

\* A walk whose GPS goes silent: the timer and the outage detection go on
NextOutage ==
    \/ AwaitedStart
    \/ AwaitedStop
    \/ AddRoutePosition
    \/ OutageWait
    \/ Motion
    \/ TimerTick
    \/ GPSOutageTick
    \/ Granted

InitOutage ==
    \E settings \in {s \in Settings : s.activityMode = "walk"} :
        Constructed(settings, Phone, TRUE,
                    Allowance(OutageCalls, OutageFixes, OutageClock, OutageMotion,
                              OutageTicks))

SpecOutage ==
    InitOutage /\ [][NextOutage]_vars

\* Measurements in micro-degrees and accuracies in metres for one filter
KalmanMeasurements == {-5000, 0, 1000, 1004, 37000}

KalmanAccuracies == {0, 5, 20, 50}

\* latFilter.filter(measurement)
FilterMeasurement ==
    /\ budget.calls > 0
    /\ \E measurement \in KalmanMeasurements :
           LET f == KalmanFilter(latFilter, measurement)
           IN Commit([S EXCEPT !.input = <<measurement>>, !.latFilter = f,
                               !.returned = <<f.x>>],
                     "filter", "calls")

\* latFilter.adjustParameters(accuracy)
AdjustParameters ==
    /\ budget.calls > 0
    /\ \E accuracy \in KalmanAccuracies :
           Commit([S EXCEPT !.input = <<accuracy>>,
                            !.latFilter = KalmanAdjustParameters(@, accuracy)],
                  "adjustParameters", "calls")

\* latFilter.reset()
ResetFilter ==
    /\ budget.calls > 0
    /\ Commit([S EXCEPT !.latFilter = KalmanReset(@)], "reset", "calls")

\* One KalmanFilter1D, as the tracker constructs it, under any calls
NextKalman ==
    \/ FilterMeasurement
    \/ AdjustParameters
    \/ ResetFilter

InitKalman ==
    \E settings \in Settings :
        Constructed(settings, Phone, TRUE, Allowance(KalmanCalls, 0, 0, 0, 0))

SpecKalman ==
    InitKalman /\ [][NextKalman]_vars

\* Fixes that report a perfect accuracy of 0 m, among ordinary ones
ExactFixes ==
    {Fix(1000, 500, 0, null, 0),
     Fix(1004, 500, 0, null, 0),
     Fix(10000, 500, 0, null, 0),
     Fix(10000, 500, 5, null, 0)}

AddExactPosition ==
    AddPositionFrom(ExactFixes, {FixPeriod})

\* A session of any filtering mode that is fed fixes of accuracy 0
NextDegenerate ==
    \/ AwaitedStart
    \/ AwaitedStop
    \/ AddExactPosition
    \/ Granted

InitDegenerate ==
    \E settings \in Settings :
        Constructed(settings, Phone, TRUE,
                    Allowance(DegenerateCalls, DegenerateFixes, 0, 0, 0))

SpecDegenerate ==
    InitDegenerate /\ [][NextDegenerate]_vars

\* The charge of the phone: critical, low and comfortable
BatteryLevels == {10, 20, 80}

\* A session on a phone of any charge whose sampling interval is recomputed
NextBattery ==
    \/ AwaitedStart
    \/ AwaitedStop
    \/ AwaitedSetDistanceGoal
    \/ AddSpeedPosition
    \/ AdaptiveSamplingTick
    \/ Granted

InitBattery ==
    \E settings \in Settings, level \in BatteryLevels :
        Constructed(settings, [Phone EXCEPT !.level = level], TRUE,
                    Allowance(BatteryCalls, BatteryFixes, 0, 0, BatteryTicks))

SpecBattery ==
    InitBattery /\ [][NextBattery]_vars

\* The snapshots a client persisted: a run of 1.5 km with one split saved 20 s
\* ago or just now, and a short walk saved without its activity type
SavedStates(t) ==
    {[distance |-> 1500000, duration |-> 600000, pace |-> 400,
      splits |-> <<[km |-> 1, time |-> 390000, pace |-> 390, isPartial |-> FALSE]>>,
      estimatedTotalSteps |-> null, averageSpeed |-> <<>>,
      elevation |-> [current |-> 103000, gain |-> 3000, loss |-> 0,
                     lastAltitude |-> 100000],
      activityType |-> "run", timestamp |-> t - 20000],
     [distance |-> 300000, duration |-> 90000, pace |-> 300,
      splits |-> <<>>,
      estimatedTotalSteps |-> 394, averageSpeed |-> <<>>,
      elevation |-> ElevationInit,
      activityType |-> "", timestamp |-> t]}

\* tracker.restoreTracking(savedState)
RestoreTracking ==
    /\ Quiet
    /\ ~isTracking
    /\ budget.calls > 0
    /\ \E savedState \in SavedStates(now) :
           Commit(restoreTracking([S EXCEPT !.input = <<savedState>>], savedState),
                  "restoreTracking", "calls")

\* tracker.restoreTrackingPaused(savedState); pauseSnapshot notes the session
\* as the restore left it paused
RestoreTrackingPaused ==
    /\ Quiet
    /\ ~isTracking
    /\ budget.calls > 0
    /\ \E savedState \in SavedStates(now) :
           LET s == restoreTrackingPaused([S EXCEPT !.input = <<savedState>>],
                                          savedState)
           IN Commit([s EXCEPT !.pauseSnapshot = Snapshot(s)],
                     "restoreTrackingPaused", "calls")

\* A session started afresh or rehydrated from a snapshot, running or paused,
\* then resumed, timed, fed and stopped
NextRestore ==
    \/ RestoreTracking
    \/ RestoreTrackingPaused
    \/ AwaitedStart
    \/ AwaitedResume
    \/ AwaitedStop
    \/ AddRoutePosition
    \/ ClockAdvance
    \/ TimerTick
    \/ Granted

InitRestore ==
    \E settings \in Settings :
        Constructed(settings, Phone, TRUE,
                    Allowance(RestoreCalls, RestoreFixes, RestoreClock, 0,
                              RestoreTicks))

SpecRestore ==
    InitRestore /\ [][NextRestore]_vars

\* A phone whose user refuses the motion permission
PhoneWithoutMotion ==
    [Phone EXCEPT !.motion = "denied"]

\* The registered watcher calls its callback with the next location of the
\* route, whatever else is still in flight
WatcherFix ==
    /\ watchers # {}
    /\ budget.fixes > 0
    /\ \E accept \in BOOLEAN :
           LET fix == RouteFix(positions)
           IN Commit(addPosition([S EXCEPT !.now = @ + FixPeriod, !.input = <<fix>>],
                                 fix, accept),
                     "addPosition", "fixes")

\* start() on a device whose motion sensor is granted, refused or missing:
\* the initialisation of the sensors settles at any time or never
NextSensor ==
    \/ Start
    \/ ResumeStart
    \/ ResumeSensorInit
    \/ GrantedPermissionTest
    \/ GrantedAddWatcher
    \/ WatcherFix

InitSensor ==
    \E settings \in Settings, dev \in {Phone, PhoneWithoutMotion, Browser} :
        Constructed(settings, dev, TRUE, Allowance(SensorCalls, SensorFixes, 0, 0, 0))

\* The wake lock and the location plugin answer; nothing makes the sensors
SpecSensor ==
    /\ InitSensor
    /\ [][NextSensor]_vars
    /\ WF_vars(ResumeStart)
    /\ WF_vars(GrantedPermissionTest)
    /\ WF_vars(GrantedAddWatcher)

\* The waits after which the prediction is confident, is weak, and is too old
PredictionSteps == {8000, 12000, 20000}

\* Date.now() moves on while no fix arrives
PredictionWait ==
    /\ Quiet
    /\ isTracking
    /\ budget.clock > 0
    /\ \E d \in PredictionSteps : Commit([S EXCEPT !.now = @ + d], "clock", "clock")

\* tracker.gpsGapFiller.processPosition() without a position, the one call
\* that marks the start of a gap
MarkGap ==
    /\ Quiet
    /\ isTracking
    /\ budget.calls > 1
    /\ ~gpsGapFiller.isInGap
    /\ LET g == processPositionGap(gpsGapFiller, now)
       IN Commit([S EXCEPT !.gpsGapFiller = g, !.returned = fillGap(g, now)],
                 "processPositionGap", "calls")

\* A walk of up to three fixes whose gap filler has a marked gap, so that
\* both tiers of the outage detection can answer
NextPrediction ==
    \/ AwaitedStart
    \/ AwaitedStop
    \/ AddRoutePosition
    \/ MarkGap
    \/ PredictionWait
    \/ Motion
    \/ GPSOutageTick
    \/ Granted

InitPrediction ==
    \E settings \in {s \in Settings : s.activityMode = "walk"} :
        Constructed(settings, Phone, TRUE,
                    Allowance(PredictionCalls, PredictionFixes, PredictionClock,
                              PredictionMotion, PredictionTicks))

SpecPrediction ==
    InitPrediction /\ [][NextPrediction]_vars

\* Fixes of one meridian: a first point, the same point again, and a point
\* 1.7 km north of it
SplitFixPoints ==
    {Fix(1000, 500, 5, null, 0), Fix(16300, 500, 5, null, 0)}

AddSplitPosition ==
    AddPositionFrom(SplitFixPoints, {FixPeriod})

\* The settings page stores the other distance unit during a session
SetDistanceUnit ==
    /\ Quiet
    /\ isTracking
    /\ budget.calls > 1
    /\ \E unit \in {"km", "mi"} \ {localStorage.distanceUnit} :
           Commit([S EXCEPT !.localStorage.distanceUnit = unit, !.input = <<unit>>],
                  "setDistanceUnit", "calls")

\* A session, started afresh or restored from a snapshot, whose distance unit
\* may change while fixes arrive
NextSplits ==
    \/ AwaitedStart
    \/ AwaitedResume
    \/ AwaitedStop
    \/ RestoreTracking
    \/ RestoreTrackingPaused
    \/ SetDistanceUnit
    \/ AddSplitPosition
    \/ Granted

InitSplits ==
    \E settings \in Settings :
        Constructed(settings, Phone, TRUE, Allowance(SplitCalls, SplitFixes, 0, 0, 0))

SpecSplits ==
    InitSplits /\ [][NextSplits]_vars

\* Magnitudes below, at and above the threshold, and the times between two
\* samples of the motion sensor
SampleMagnitudes == {5, 12, 15}

SamplePeriods == {100, 150, 250}

\* stepCounter.processAcceleration(acceleration), the period after the sample
\* before; returned is what the call answers
ProcessAcceleration ==
    /\ budget.motion > 0
    /\ \E magnitude \in SampleMagnitudes, d \in SamplePeriods :
           LET t == now + d
               sc == sensorFusion.stepCounter
           IN Commit([S EXCEPT !.now = t,
                               !.input = <<magnitude>>,
                               !.sensorFusion.stepCounter =
                                   processAcceleration(sc, magnitude, t),
                               !.returned = <<StepDetected(sc, magnitude, t)>>],
                     "processAcceleration", "motion")

\* stepCounter.reset()
ResetStepCounter ==
    /\ budget.calls > 0
    /\ Commit([S EXCEPT !.sensorFusion.stepCounter = StepCounterInit],
              "resetStepCounter", "calls")

\* A step counter that is fed samples and reset
NextSteps ==
    \/ ProcessAcceleration
    \/ ResetStepCounter

InitSteps ==
    \E settings \in {s \in Settings : s.activityMode = "walk"} :
        Constructed(settings, Phone, TRUE, Allowance(StepResets, 0, 0, StepSamples, 0))

SpecSteps ==
    InitSteps /\ [][NextSteps]_vars

\* The timestamps of the fixes a gap filler is fed: whole seconds, the same
\* one twice or out of order
StampChoices == {T0 + 1000, T0 + 2000, T0 + 3000}

\* The times a prediction is asked for
PredictionTimes == {T0 + 3000, T0 + 8000}

\* gpsGapFiller.processPosition(position) with a real fix of a walk due
\* north that carries any of the timestamps
ProcessStampedPosition ==
    /\ budget.fixes > 0
    /\ \E t \in StampChoices :
           LET position == [lat |-> 1000 + 10 * Len(gpsGapFiller.positionHistory),
                            lon |-> 500, timestamp |-> t, accuracy |-> 5]
           IN Commit([S EXCEPT !.input = <<position>>,
                               !.gpsGapFiller = processPosition(@, position, now),
                               !.returned = <<position>>],
                     "processPosition", "fixes")

\* gpsGapFiller.patternAnalyzer.predictPosition(futureTimestamp)
PredictPosition ==
    /\ budget.calls > 0
    /\ \E t \in PredictionTimes :
           Commit([S EXCEPT !.input = <<t>>,
                            !.returned = predictPosition(gpsGapFiller.positionHistory, t)],
                  "predictPosition", "calls")

\* A pattern analyzer fed fixes with any timestamps and asked to predict
NextRegression ==
    \/ ProcessStampedPosition
    \/ PredictPosition

InitRegression ==
    \E settings \in Settings :
        Constructed(settings, Phone, TRUE,
                    Allowance(RegressionCalls, RegressionFixes, 0, 0, 0))

SpecRegression ==
    InitRegression /\ [][NextRegression]_vars

\* ------------------------------------------------------------------ claims

\* Some event of the given type was emitted by the last step
Emitted(type) ==
    \E i \in DOMAIN emitted : emitted[i].type = type

\* The fields of the tracker instance
session ==
    <<activityType, distance, duration, pace, estimatedSteps, currentSpeed, splits,
      positions, distanceGoal, elevation, isTracking, isPaused, startTime,
      pausedTime, lastPauseTime, lastSplitDistance, watchId, timerInterval,
      paceInterval, adaptiveSamplingInterval, gpsOutageInterval, smoothedSpeedMps,
      latFilter, lonFilter, altFilter, weightedFilter, gpsFilteringMode,
      sensorFusion, lastGPSTime, gpsGapFiller>>

\* C1: while the session is tracking and not paused, the distance after a
\* call of addPosition is greater than or equal to the distance before it.
C1_DistanceNeverDecreases ==
    [][(op' = "addPosition" /\ isTracking /\ ~isPaused) => distance' >= distance]_vars

\* A call of addPosition has added to the distance of a running session
C1_Witness ==
    /\ op = "addPosition"
    /\ isTracking /\ ~isPaused
    /\ Emitted("distanceChange")
    /\ Len(positions) >= 3
    /\ distance > 0

\* A fix the gate of the claim turns away in the current state: the session is
\* not tracking or is paused, the accuracy is above 20 m (a missing accuracy
\* counts as 999 m), or a coordinate is NaN or out of range
C2_Rejected(fix) ==
    \/ ~isTracking
    \/ isPaused
    \/ fix.accuracy > 20
    \/ fix.accuracy = null
    \/ fix.latitude = NaN \/ fix.longitude = NaN
    \/ fix.latitude > 90000000 \/ (fix.latitude < -90000000 /\ fix.latitude # NaN)
    \/ fix.longitude > 180000000 \/ (fix.longitude < -180000000 /\ fix.longitude # NaN)

\* C2: a fix rejected by the gate leaves every field of the session as it was
\* and emits no event.
C2_RejectedFixChangesNothing ==
    [][(op' = "addPosition" /\ C2_Rejected(input'[1]))
           => (UNCHANGED session /\ emitted' = <<>>)]_vars

\* An inaccurate fix reached a running session that had measured a distance
C2_Witness ==
    /\ op = "addPosition"
    /\ isTracking /\ ~isPaused
    /\ input[1].accuracy > 20
    /\ Len(positions) >= 2
    /\ distance > 0
    /\ emitted = <<>>

\* C3: while a session goes on, the list of splits holds exactly one split for
\* every whole unit index k with 1 <= k <= floor(distance / unit), in order,
\* and no other.
C3_OneSplitPerWholeUnit ==
    isTracking =>
        /\ Len(splits) = distance \div SplitDistanceOf(localStorage.distanceUnit)
        /\ \A k \in 1..Len(splits) : splits[k].km = k

\* C4: from pause() until the next resume() or stop() (or a start() that opens
\* a new session), no step changes distance, duration, pace, the splits, the
\* elevation gain and loss, or estimatedSteps: not a fix, not a timer callback,
\* not a motion event.
C4_PausePreservesAccumulators ==
    [][(isTracking /\ isPaused /\ op' \notin {"start", "resume", "stop"})
           => /\ UNCHANGED <<distance, duration, pace, splits, estimatedSteps>>
              /\ elevation'.gain = elevation.gain
              /\ elevation'.loss = elevation.loss]_vars

\* C5: a resume() at t2 after a pause() at t1 finds the distance and the splits
\* as pause() found them and leaves pausedTime greater by exactly t2 - t1.
C5_ResumeAddsThePause ==
    [][(op' = "resume" /\ isTracking /\ isPaused)
           => /\ distance' = pauseSnapshot[1].distance
              /\ splits' = pauseSnapshot[1].splits
              /\ pausedTime' = pauseSnapshot[1].pausedTime
                                   + (now' - pauseSnapshot[1].now)]_vars

\* A session with a distance and a split was resumed after a pause that lasted
C5_Witness ==
    /\ op = "resume"
    /\ isTracking /\ ~isPaused
    /\ pausedTime > 0
    /\ pausedTime = now - pauseSnapshot[1].now
    /\ distance > 0
    /\ Len(splits) > 0

\* C6: once pause() or stop() has completed, none of the four intervals is
\* scheduled and no location watcher is registered or recorded.
C6_TeardownCancelsEverything ==
    (Quiet /\ op # "constructor" /\ (isPaused \/ ~isTracking))
        => (intervals = {} /\ watchers = {} /\ watchId = null)

\* How many events of the given type a handler emitted
CountOf(events, type) ==
    Cardinality({i \in DOMAIN events : events[i].type = type})

\* stop() on a session that is tracking or paused: the session becomes idle
\* and one result, which carries the fields of the session, is saved
C8_Stopping ==
    (op' = "stop" /\ isTracking) =>
        /\ ~isTracking' /\ ~isPaused'
        /\ distance' = distance
        /\ elevation' = elevation
        /\ activityType' = activityType
        /\ Len(savedRuns') = Len(savedRuns) + 1
        /\ SubSeq(savedRuns', 1, Len(savedRuns)) = savedRuns
        /\ Last(savedRuns').distance = distance'
        /\ Last(savedRuns').duration = duration'
        /\ Last(savedRuns').pace = pace'
        /\ Last(savedRuns').splits = splits'
        /\ Last(savedRuns').elevation = [gain |-> elevation'.gain,
                                         loss |-> elevation'.loss]
        /\ Last(savedRuns').unit = localStorage.distanceUnit
        /\ Last(savedRuns').activityType = activityType'
        /\ CountOf(emitted', "runCompleted") = 0

\* stop() completes: it returns the saved result and emits runCompleted once
C8_Completing ==
    (op' = "allowSleep") =>
        /\ returned' = <<Last(savedRuns)>>
        /\ CountOf(emitted', "runCompleted") = 1
        /\ \A i \in DOMAIN emitted' :
               emitted'[i].type = "runCompleted" => emitted'[i].value = Last(savedRuns)
        /\ savedRuns' = savedRuns
        /\ ~isTracking' /\ ~isPaused'

\* A further stop() returns nothing, saves nothing, emits nothing
C8_Further ==
    (op' = "stop" /\ ~isTracking) =>
        /\ returned' = <<>>
        /\ emitted' = <<>>
        /\ savedRuns' = savedRuns
        /\ pending' = pending
        /\ UNCHANGED session

\* Nothing else saves a result, returns one or emits runCompleted
C8_NothingElse ==
    /\ op' # "stop" => savedRuns' = savedRuns
    /\ op' # "allowSleep" => (returned' = <<>> /\ CountOf(emitted', "runCompleted") = 0)

\* C8: stop() from Tracking or Paused saves exactly one result carrying the
\* distance, duration, pace, splits, elevation gain and loss, unit and
\* activity type of the session, returns it, emits runCompleted exactly once
\* and leaves the session idle; a further stop() returns nothing, saves
\* nothing and emits nothing.
C8_StopReturnsOneResult ==
    [][C8_Stopping /\ C8_Completing /\ C8_Further /\ C8_NothingElse]_vars

\* stop() has returned the result of a session that had a distance and splits
C8_Witness ==
    /\ op = "allowSleep"
    /\ returned # <<>>
    /\ returned[1].distance > 0
    /\ Len(returned[1].splits) > 0
    /\ returned[1].duration > 0
    /\ Len(savedRuns) = 1
    /\ ~isTracking

\* All four intervals of a running session are scheduled
TimersScheduled ==
    /\ Scheduled(intervals, "timer")
    /\ Scheduled(intervals, "pace")
    /\ Scheduled(intervals, "adaptiveSampling")
    /\ Scheduled(intervals, "gpsOutage")

\* C7: whatever the interleaving of start(), pause(), resume() and stop(), once
\* every call has completed the timers are scheduled and exactly one location
\* watcher is registered, the one watchId records, if and only if the session
\* is tracking and not paused.
C7_ConsistentOnceCallsComplete ==
    Quiet => ((isTracking /\ ~isPaused)
                  <=> (TimersScheduled /\ Cardinality(watchers) = 1
                       /\ watchId \in watchers))

\* C9: once pause() or stop() has completed, or the addWatcher of start() has
\* failed, the session holds no location watcher and no wake-lock.
C9_ExitsReleaseEverything ==
    (Quiet /\ \/ (op # "constructor" /\ (isPaused \/ ~isTracking))
              \/ (op \in {"permissionTest", "addWatcher"} /\ watchId = null))
        => (watchers = {} /\ watchId = null /\ ~wakeLock)

\* C10: when the startTracking() of start() finds the permission missing, or
\* the plugin refuses it, permissionError is emitted and the session is not
\* tracking.
C10_PermissionFailureStopsTracking ==
    /\ (op = "keepAwake" /\ ~localStorage.permissionsGranted)
           => (Emitted("permissionError") /\ ~isTracking)
    /\ Emitted("permissionError") => ~isTracking

\* The platform side of a session: intervals, watchers, wake-lock, calls in
\* flight
resources ==
    <<intervals, nextId, pending, watchers, testWatchers, motionListeners, wakeLock>>

\* C11: start() called while the session is paused begins no new session: the
\* distance, duration, splits, elevation and pause bookkeeping stay as they
\* were and no timer, watcher or pending call is added.
C11_StartWhilePausedKeepsSession ==
    [][(op' = "start" /\ isTracking /\ isPaused)
           => /\ UNCHANGED <<distance, duration, splits, elevation, isPaused,
                             pausedTime, lastPauseTime, startTime>>
              /\ UNCHANGED resources]_vars

\* A lifecycle call made in a state where it is not valid
C12_InvalidCall ==
    \/ op' = "start" /\ isTracking /\ ~isPaused
    \/ op' = "pause" /\ (~isTracking \/ isPaused)
    \/ op' = "resume" /\ (~isTracking \/ ~isPaused)
    \/ op' = "stop" /\ ~isTracking

\* C12: start() while tracking and not paused, pause() while idle or paused,
\* resume() while idle or tracking, and stop() while idle change no field of
\* the session, no interval, watcher or pending call, and emit nothing.
C12_InvalidCallsAreNoOps ==
    [][C12_InvalidCall
           => (UNCHANGED session /\ UNCHANGED resources /\ emitted' = <<>>
               /\ savedRuns' = savedRuns /\ returned' = <<>>)]_vars

\* start() was called on a running session that had measured a distance, and
\* nothing was reset or suspended
C12_Witness ==
    /\ op = "start"
    /\ isTracking /\ ~isPaused
    /\ distance > 0
    /\ Len(positions) >= 2
    /\ Quiet
    /\ emitted = <<>>

\* C13: a fix that raises the distance to the goal or beyond emits goalReached
\* with the distance and the goal and leaves isTracking, isPaused, the goal,
\* the watcher and the intervals as they were; and every fix that passes the
\* gate afterwards is still ingested (it updates the duration).
C13_GoalReachedDoesNotStop ==
    [][/\ (op' = "addPosition" /\ isTracking /\ ~isPaused /\ distanceGoal # null
           /\ distance' > distance /\ distance' >= distanceGoal)
              => /\ \E i \in DOMAIN emitted' :
                        /\ emitted'[i].type = "goalReached"
                        /\ emitted'[i].value = [distance |-> distance',
                                                goal |-> distanceGoal]
                 /\ UNCHANGED <<isTracking, isPaused, distanceGoal, watchId,
                                timerInterval, paceInterval,
                                adaptiveSamplingInterval, gpsOutageInterval>>
                 /\ UNCHANGED resources
       /\ (op' = "addPosition" /\ isTracking /\ ~isPaused /\ distanceGoal # null
           /\ distance >= distanceGoal /\ ~C2_Rejected(input'[1]))
              => \E i \in DOMAIN emitted' : emitted'[i].type = "durationChange"]_vars

\* The goal was reached by one fix and a later fix was ingested beyond it: the
\* distance is more than any single fix of the inputs adds (about 4 km)
C13_Witness ==
    /\ op = "addPosition"
    /\ isTracking /\ ~isPaused
    /\ distanceGoal # null
    /\ Emitted("goalReached")
    /\ Emitted("durationChange")
    /\ distance > 5 * distanceGoal

\* C14: start() from Idle leaves every accumulator, filter and sub-component
\* in its initial state, the time of the last real fix included.
C14_StartResetsEverything ==
    [][(op' = "start" /\ ~isTracking)
           => /\ distance' = 0 /\ duration' = 0 /\ pace' = 0
              /\ estimatedSteps' = 0
              /\ splits' = <<>> /\ lastSplitDistance' = 0
              /\ pausedTime' = 0 /\ smoothedSpeedMps' = 0
              /\ elevation' = ElevationInit
              /\ positions' = <<>>
              /\ latFilter'.x = null /\ lonFilter'.x = null /\ altFilter'.x = null
              /\ weightedFilter' = <<>>
              /\ gpsGapFiller' = GapFillerInit
              /\ lastGPSTime' = 0]_vars

\* C15: the sampling interval handed to the plugin, and the one
\* calculateOptimalSamplingInterval computes in any state for either
\* visibility and with or without a Battery API, lies within [3000, 60000] ms.
C15_SamplingIntervalInRange ==
    /\ gpsInterval # null => (gpsInterval >= 3000 /\ gpsInterval <= 60000)
    /\ \A hasBatteryApi \in BOOLEAN, hidden \in BOOLEAN :
           LET interval == calculateOptimalSamplingInterval(S, hasBatteryApi, hidden)
           IN interval >= 3000 /\ interval <= 60000

\* The interval was recomputed for a moving session that has a goal
C15_Witness ==
    /\ op = "adaptiveSampling"
    /\ gpsInterval # null
    /\ distanceGoal # null
    /\ Len(positions) >= 2
    /\ distance > 0

\* C16: fillGap() returns nothing once the gap has lasted more than 60000 ms;
\* up to then, with at least 3 points in the history, it returns a position
\* whose confidence is above 0.3 and at most 0.9.
C16_FillGapBounded ==
    op \in {"fillGap", "processPositionGap"} =>
        /\ now - gpsGapFiller.gapStartTime > 60000 => returned = <<>>
        /\ (now - gpsGapFiller.gapStartTime <= 60000
            /\ Len(gpsGapFiller.positionHistory) >= 3)
               => /\ returned # <<>>
                  /\ returned[1].confidence > 300
                  /\ returned[1].confidence <= 900

\* C17: once the last real fix is more than the maximum gap duration (60 s)
\* old, a tick of the outage detection hands no synthetic position, predicted
\* or dead-reckoned, to addPosition and leaves the distance and the stored
\* positions alone, while a tick of the timer still moves the duration on to
\* the wall-clock time of the session.
C17_LongGap ==
    /\ isTracking
    /\ ~isPaused
    /\ lastGPSTime > 0
    /\ now - lastGPSTime > maxGapDuration

C17_NoSyntheticFixAfterMaxGap ==
    [][/\ (op' = "gpsOutage" /\ C17_LongGap)
           => /\ input' = <<>>
              /\ distance' = distance
              /\ positions' = positions
       /\ (op' = "timer" /\ C17_LongGap)
           => /\ duration' >= duration
              /\ duration' = now - startTime - pausedTime
              /\ distance' = distance]_vars

\* The metres of the unit the splits are counted in
C18_Unit ==
    SplitDistanceOf(getDistanceUnit(S))

\* C18: a fix that adds distance and brings floor(distance / unit) above
\* floor(lastSplitDistance / unit) appends exactly one split, with isPartial
\* false, time the current duration and pace (duration - time of the split
\* before, or 0) / unit, and moves lastSplitDistance to the completed unit
\* index times the unit; a fix that adds no distance records no split.
C18_SplitAtUnitBoundary ==
    [][(op' = "addPosition" /\ ~C2_Rejected(input'[1]))
           => /\ (/\ distance' > distance
                  /\ distance' \div C18_Unit > lastSplitDistance \div C18_Unit)
                  => /\ Len(splits') = Len(splits) + 1
                     /\ SubSeq(splits', 1, Len(splits)) = splits
                     /\ Last(splits').isPartial = FALSE
                     /\ Last(splits').time = duration'
                     /\ Last(splits').pace =
                            ((duration' - (IF Len(splits) > 0 THEN Last(splits).time
                                           ELSE 0)) * 1000) \div C18_Unit
                     /\ lastSplitDistance' = (distance' \div C18_Unit) * C18_Unit
              /\ distance' = distance => splits' = splits]_vars

\* C19: within a session (every step but a start(), which opens one) the
\* splits recorded so far stay as they are: the list after a step begins with
\* the list before it, and a stop() that finds a recorded split leaves the
\* list as it is, so the fallback computed from the positions is only taken
\* when no split was recorded.
C19_SplitsAppendOnly ==
    [][op' # "start"
           => /\ Len(splits') >= Len(splits)
              /\ SubSeq(splits', 1, Len(splits)) = splits
              /\ (op' = "stop" /\ Len(splits) > 0) => splits' = splits]_vars

\* stop() ended a session whose ingestion had recorded two splits
C19_Witness ==
    /\ op = "stop"
    /\ ~isTracking
    /\ Len(splits) >= 2
    /\ Len(positions) >= 3

\* C20: after every filter(), adjustParameters(accuracy >= 0) and reset() of
\* a KalmanFilter1D the error covariance P is at least 0 and the gain K lies
\* between 0 and 1, and the value filter() returns lies between the estimate
\* before the call and the measurement.
C20_KalmanCovarianceAndGain ==
    [][op' \in {"filter", "adjustParameters", "reset"}
           => /\ latFilter'.P >= 0
              /\ latFilter'.K >= 0
              /\ latFilter'.K <= 1000
              /\ (op' = "filter" /\ latFilter.x # null)
                     => /\ returned'[1] >= Min(latFilter.x, input'[1])
                        /\ returned'[1] <= Max(latFilter.x, input'[1])]_vars

\* filter() smoothed a measurement after adjustParameters() had set the noise
C20_Witness ==
    /\ op = "filter"
    /\ latFilter.R # 10
    /\ latFilter.K > 0
    /\ latFilter.K < 1000
    /\ latFilter.P > 0
    /\ returned[1] # input[1]

\* C21: a fix of accuracy 0 divides by zero in neither filter: the Kalman
\* filters keep a measurement noise R of at least 0.001, the window of the
\* weighted filter averages to numbers, and every stored position has a
\* numeric latitude and longitude.
C21_AccuracyZeroIsClamped ==
    /\ latFilter.R >= 1
    /\ lonFilter.R >= 1
    /\ \A i \in 1..Len(positions) :
           /\ ~isNaN(positions[i].latitude)
           /\ ~isNaN(positions[i].longitude)
    /\ weightedFilter # <<>> =>
           /\ ~isNaN(getWeightedAverage(weightedFilter).lat)
           /\ ~isNaN(getWeightedAverage(weightedFilter).lon)

\* The interval the sampling rule gives for a battery at level percent: the
\* speed-adjusted base, times 2 below 15 %, times 1.5 below 30 %, then the
\* goal and background adjustments and the clamp
C22_Interval(level, hidden) ==
    LET a == SpeedAdjusted(BaseInterval(activityType), calculateCurrentSpeed(S))
        b == IF level < CRITICAL_BATTERY THEN a * 2
             ELSE IF level < LOW_BATTERY THEN (a * 3) \div 2
             ELSE a
        c == BackgroundAdjusted(GoalAdjusted(S, b), hidden)
    IN Max(MIN_INTERVAL, Min(MAX_INTERVAL, c))

\* C22: on a device whose battery level is available, the interval that the
\* adaptive sampling sets is the speed-adjusted interval multiplied by 1.5 when
\* the level is below 30 % and by 2 when it is below 15 %, before the goal and
\* background adjustments and the clamp.
C22_BatteryScalesInterval ==
    (/\ op = "adaptiveSampling"
     /\ isTracking /\ ~isPaused
     /\ watchId # null
     /\ device.battery)
        => \E hidden \in BOOLEAN : gpsInterval = C22_Interval(device.level, hidden)

\* A distance goal is active and fewer than 1000 m remain to it
C23_NearGoal ==
    /\ distanceGoal # null
    /\ distanceGoal # 0
    /\ distanceGoal - distance < 1000000

\* C23 (as stated): with an active distance goal fewer than 1000 m away the
\* computed sampling interval is at most 5000 ms, whatever the battery and
\* the visibility of the app.
C23_NearGoalAtMostFiveSeconds ==
    C23_NearGoal =>
        \A hasBatteryApi \in BOOLEAN, hidden \in BOOLEAN :
            calculateOptimalSamplingInterval(S, hasBatteryApi, hidden) <= 5000

\* C23 (amended): with an active distance goal fewer than 1000 m away the
\* computed sampling interval is at most 5000 ms while the app is visible;
\* while the app is hidden the background rule, applied after the goal rule,
\* raises it to 30000 ms.
C23_NearGoalInForeground ==
    C23_NearGoal =>
        \A hasBatteryApi \in BOOLEAN :
            /\ calculateOptimalSamplingInterval(S, hasBatteryApi, FALSE) <= 5000
            /\ calculateOptimalSamplingInterval(S, hasBatteryApi, TRUE) = 30000

\* The interval of a slow walk was recomputed in the foreground near the goal
C23_Witness ==
    /\ op = "adaptiveSampling"
    /\ C23_NearGoal
    /\ activityType = "walk"
    /\ distance > 0
    /\ gpsInterval = 5000

\* What both restores take from the snapshot
C24_Restored(savedState) ==
    /\ distance' = savedState.distance
    /\ splits' = savedState.splits
    /\ elevation'.current = savedState.elevation.current
    /\ elevation'.gain = savedState.elevation.gain
    /\ elevation'.loss = savedState.elevation.loss

\* C24: restoreTracking(snapshot) leaves the session tracking with duration
\* snapshot.duration plus the time since snapshot.timestamp and startTime =
\* now - duration; restoreTrackingPaused(snapshot) leaves it paused with
\* duration snapshot.duration; a resume() after it leaves the wall-clock
\* duration now - startTime - pausedTime at snapshot.duration, whatever time
\* was spent paused, and the timer reports that duration; both restores take
\* distance, splits and elevation from the snapshot.
C24_RestoreRehydratesSession ==
    [][/\ op' = "restoreTracking"
           => /\ isTracking' /\ ~isPaused'
              /\ duration' = input'[1].duration + (now' - input'[1].timestamp)
              /\ startTime' = now' - duration'
              /\ C24_Restored(input'[1])
       /\ op' = "restoreTrackingPaused"
           => /\ isTracking' /\ isPaused'
              /\ duration' = input'[1].duration
              /\ C24_Restored(input'[1])
       /\ (op' = "resume" /\ isTracking /\ isPaused)
           => /\ isTracking' /\ ~isPaused'
              /\ now' - startTime' - pausedTime' = pauseSnapshot[1].duration
              /\ distance' = pauseSnapshot[1].distance
              /\ splits' = pauseSnapshot[1].splits
       /\ (op' = "timer" /\ isTracking /\ ~isPaused)
           => duration' = now' - startTime' - pausedTime']_vars

\* The timer ran after a session restored as paused had waited and was resumed
C24_Witness ==
    /\ op = "timer"
    /\ isTracking /\ ~isPaused
    /\ pauseSnapshot # <<>>
    /\ pausedTime > 0
    /\ duration > pauseSnapshot[1].duration
    /\ distance = 1500000

\* C25: when the plugin calls the watcher's callback with an error, the error
\* is surfaced to the observers by an event and the watcher is torn down: no
\* watcher is registered and watchId is null, or the removal of the watcher is
\* under way.
C25_WatcherErrorTearsDown ==
    [][op' = "watcherError"
           => /\ emitted' # <<>>
              /\ \/ (watchId' = null /\ watchers' = {})
                 \/ \E c \in BagToSet(pending') : c.k = "removeWatcher"]_vars

\* The initialisation of the sensors has not settled
C26_SensorInitPending ==
    \E c \in BagToSet(pending) : c.k = "sensorInit"

\* C26: start() does not wait for the sensors: whether their initialisation
\* succeeds, is refused or never settles, a started session comes to track
\* with its watcher registered and all four timers scheduled, and every fix
\* that passes the gate is ingested: it sets the duration from its timestamp
\* and never lowers the distance.
C26_StartDoesNotWaitForSensors ==
    /\ isTracking ~> (/\ isTracking /\ ~isPaused
                      /\ watchId # null
                      /\ watchId \in watchers
                      /\ TimersScheduled)
    /\ [][(op' = "addPosition" /\ ~C2_Rejected(input'[1]))
              => /\ duration' = now' - startTime - pausedTime
                 /\ distance' >= distance
                 /\ Len(positions') >= Len(positions)]_vars

\* A fix added distance while the initialisation of the sensors was pending
C26_Witness ==
    /\ op = "addPosition"
    /\ C26_SensorInitPending
    /\ isTracking
    /\ TimersScheduled
    /\ Len(positions) >= 2
    /\ distance > 0

RECURSIVE C27_PathLength(_, _)
\* The sum of the steps of at least 0.5 m between the consecutive positions
\* stored[1..n]
C27_PathLength(stored, n) ==
    IF n <= 1 THEN 0
    ELSE LET step == calculateDistance(stored[n - 1].latitude, stored[n - 1].longitude,
                                       stored[n].latitude, stored[n].longitude)
         IN C27_PathLength(stored, n - 1) + (IF Moved(step) THEN step ELSE 0)

\* C27: a fix whose increment is added to the distance is appended to the
\* stored positions, the fix that reaches the distance goal too, so the
\* distance is always the sum of the steps of at least 0.5 m between
\* consecutive stored positions.
C27_DistanceIsPathLength ==
    distance = C27_PathLength(positions, Len(positions))

C29_GapStartIsMarked ==
    [][(/\ op' = "gpsOutage"
        /\ isTracking /\ ~isPaused
        /\ lastGPSTime > 0
        /\ now - lastGPSTime > gpsOutageThreshold)
           => /\ gpsGapFiller'.isInGap
              /\ gpsGapFiller'.gapStartTime >= lastGPSTime
              /\ gpsGapFiller'.gapStartTime <= now'
              /\ LET predicted == predictPosition(gpsGapFiller'.positionHistory, now')
                 IN (/\ now' - lastGPSTime <= maxGapDuration
                     /\ predicted # <<>>
                     /\ predicted[1].confidence > FILL_GAP_MIN_CONFIDENCE)
                        => fillGap(gpsGapFiller', now') = predicted]_vars

\* C30: an outage tick hands over no synthetic position unless more than 10 s
\* have passed since the last real fix; it hands over at most one; a
\* prediction of confidence above 0.5 is used first, with accuracy
\* 25 / confidence, and then dead reckoning is not consulted; without such a
\* prediction the dead-reckoning estimate is used if its confidence is above
\* 0.3, with accuracy 50 / confidence.
C30_OutageTiers ==
    [][op' = "gpsOutage"
           => LET p == fillGap(gpsGapFiller, now)
                  predicted == p # <<>> /\ p[1].confidence > 500
                  e == estimatePosition(sensorFusion.deadReckoning,
                                        sensorFusion.stepCounter.stepCount).result
                  estimated == e # <<>> /\ e[1].confidence > 300
              IN /\ Len(input') <= 1
                 /\ input' # <<>> => now - lastGPSTime > 10000
                 /\ (input' # <<>> /\ predicted)
                        => /\ input'[1] = SyntheticPosition(p[1], 25, now)
                           /\ input'[1].accuracy = (25000 + p[1].confidence - 1)
                                                       \div p[1].confidence
                           /\ sensorFusion'.deadReckoning = sensorFusion.deadReckoning
                 /\ (input' # <<>> /\ ~predicted)
                        => /\ estimated
                           /\ input'[1] = SyntheticPosition(e[1], 50, now)
                           /\ input'[1].accuracy = (50000 + e[1].confidence - 1)
                                                       \div e[1].confidence
                 /\ (/\ isTracking /\ ~isPaused /\ lastGPSTime > 0
                     /\ now - lastGPSTime > 10000
                     /\ predicted \/ estimated)
                        => Len(input') = 1]_vars

\* The tick used a prediction: only a prediction gives an accuracy below 50 m
C30_Witness ==
    /\ op = "gpsOutage"
    /\ input # <<>>
    /\ input[1].accuracy < 50
    /\ gpsGapFiller.isInGap
    /\ Len(gpsGapFiller.positionHistory) >= 3
    /\ now - lastGPSTime > 10000

\* The step is an addPosition of a fix that passed the gate and the quality
\* filter and was stored less than 0.5 m from the position stored before it
C31_Jitter ==
    /\ op' = "addPosition"
    /\ input' # <<>>
    /\ ~GateRejects(S, input'[1])
    /\ Len(positions) > 0
    /\ Len(positions') = Len(positions) + 1
    /\ LET previous == Last(positions)
           stored == Last(positions')
           increment == calculateDistance(previous.latitude, previous.longitude,
                                          stored.latitude, stored.longitude)
       IN ~isNaN(increment) /\ increment < MOVEMENT_THRESHOLD

C32_JitterRecordsNoSplit ==
    [][C31_Jitter
           => /\ splits' = splits
              /\ lastSplitDistance' = lastSplitDistance
              /\ \A i \in 1..Len(emitted') : emitted'[i].type # "splitRecorded"]_vars

\* C33: every accepted fix that carries an altitude updates the elevation.
\* With a the altitude stored for the fix: the first one of the session makes
\* a the lastAltitude; a later one adds a - lastAltitude to the gain when it
\* is at least 1 m, its absolute value to the loss when it is at most -1 m,
\* neither when it is smaller, and makes a the lastAltitude; no fix lowers
\* the gain or the loss.
C33_EveryAltitudeUpdatesElevation ==
    [][op' = "addPosition"
           => /\ elevation'.gain >= elevation.gain
              /\ elevation'.loss >= elevation.loss
              /\ (/\ input' # <<>>
                  /\ ~GateRejects(S, input'[1])
                  /\ Len(positions') = Len(positions) + 1
                  /\ Last(positions').altitude # null
                  /\ ~isNaN(Last(positions').altitude))
                     => LET a == Last(positions').altitude
                            diff == a - elevation.lastAltitude
                        IN /\ elevation'.lastAltitude = a
                           /\ elevation'.current = a
                           /\ IF elevation.lastAltitude = null
                              THEN /\ elevation'.gain = elevation.gain
                                   /\ elevation'.loss = elevation.loss
                              ELSE /\ elevation'.gain =
                                          IF diff >= 1000 THEN elevation.gain + diff
                                          ELSE elevation.gain
                                   /\ elevation'.loss =
                                          IF diff <= -1000 THEN elevation.loss - diff
                                          ELSE elevation.loss]_vars

\* C34: the duration of the result of stop() leaves out all the time spent
\* paused: the pauses that were resumed (pausedTime) and, when stop() is
\* called in a pause, the time since that pause() as well.
C34_FinalDurationExcludesPauses ==
    [][(op' = "stop" /\ isTracking)
           => LET sincePause == IF isPaused THEN now' - lastPauseTime ELSE 0
                  active == now' - startTime - pausedTime - sincePause
              IN /\ duration' = (active \div 1000) * 1000
                 /\ Len(savedRuns') = Len(savedRuns) + 1
                 /\ Last(savedRuns').duration = duration']_vars

\* C35: while the session is tracking and not paused, the duration is never
\* negative and no timer tick and no fix, whatever its timestamp, lowers it.
C35_DurationNeverDecreases ==
    [][(/\ isTracking /\ ~isPaused
        /\ isTracking' /\ ~isPaused'
        /\ op' \in {"addPosition", "timer"})
           => (duration' >= 0 /\ duration' >= duration)]_vars

\* C36: the unit indices of the recorded splits are strictly increasing, so
\* no two splits of a session carry the same index, whatever fixes arrive and
\* also after a change of the distance unit or a restore of a snapshot that
\* holds splits.
C36_SplitIndicesIncrease ==
    \A i \in 1..(Len(splits) - 1) : splits[i].km < splits[i + 1].km

\* C37: storing a GPS fix makes it the last known position of the dead
\* reckoning, resets the confidence to 1.0 and the step baseline to the
\* current step count; the first estimate after it is displaced due north
\* (the heading) by n step lengths with confidence 0.95^n, n being the steps
\* counted since that baseline.
C37_DeadReckoningFromLastFix ==
    [][LET dr == sensorFusion.deadReckoning
           stepCount == sensorFusion.stepCounter.stepCount
           n == stepCount - dr.stepsSinceLastGPS
       IN /\ (op' = "addPosition" /\ Len(positions') = Len(positions) + 1)
                 => /\ sensorFusion'.deadReckoning.lastKnownPosition # <<>>
                    /\ sensorFusion'.deadReckoning.lastKnownPosition[1].lat
                           = Last(positions').latitude
                    /\ sensorFusion'.deadReckoning.currentConfidence = 1000
                    /\ sensorFusion'.deadReckoning.stepsSinceLastGPS
                           = sensorFusion'.stepCounter.stepCount
          /\ (/\ op' = "gpsOutage"
              /\ input' # <<>>
              /\ dr.lastKnownPosition # <<>>
              /\ dr.currentConfidence = 1000
              /\ n >= 0)
                 => /\ input'[1].latitude = dr.lastKnownPosition[1].lat
                                                + (n * stepLength * 10000) \div 1111949
                    /\ input'[1].longitude = dr.lastKnownPosition[1].lon
                    /\ sensorFusion'.deadReckoning.currentConfidence
                           = DecayConfidence(1000, n)]_vars

\* C38: processAcceleration counts a step exactly when the magnitude rises
\* from at most 12 m/s^2 on the sample before to above 12 m/s^2 and at least
\* 250 ms have passed since the step counted before; the first sample after
\* construction or reset counts none, and the step count only grows until
\* reset().
C38_StepExactlyOnRisingEdge ==
    [][op' = "processAcceleration"
           => LET sc == sensorFusion.stepCounter
                  rising == /\ sc.lastAcceleration # null
                            /\ sc.lastAcceleration <= 12
                            /\ input'[1] > 12
                  spaced == now' - sc.lastPeakTime >= 250
                  counted == sensorFusion'.stepCounter.stepCount - sc.stepCount
              IN /\ counted = IF rising /\ spaced THEN 1 ELSE 0
                 /\ returned' = <<counted = 1>>
                 /\ sc.lastAcceleration = null => counted = 0
                 /\ counted = 1 => sensorFusion'.stepCounter.lastPeakTime = now']_vars

\* C39: registering the step callback runs no callback: the step of start()
\* that calls sensorFusion.onStepDetected(callback) emits no stepsChange and
\* leaves estimatedSteps alone, in every session; estimatedSteps is 0 after
\* start() and changes only with a detected step or a fix.
C39_RegistrationRunsNoCallback ==
    [][/\ op' = "sensorInit"
           => /\ estimatedSteps' = estimatedSteps
              /\ \A i \in 1..Len(emitted') : emitted'[i].type # "stepsChange"
              /\ sensorFusion'.onStepDetected = "callback"
       /\ (op' = "start" /\ isTracking' /\ ~(isTracking /\ ~isPaused))
           => estimatedSteps' = 0
       /\ estimatedSteps' # estimatedSteps
           => op' \in {"start", "motion", "addPosition"}]_vars

\* C40: predictPosition answers nothing or a finite latitude and longitude
\* for every history of at least three fixes, also when fixes carry the same
\* timestamp or come out of order.
C40_PredictionIsFinite ==
    (op = "predictPosition" /\ returned # <<>>)
        => /\ Len(gpsGapFiller.positionHistory) >= 3
           /\ ~isNaN(returned[1].lat)
           /\ ~isNaN(returned[1].lon)

====
